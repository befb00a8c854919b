------------------------------ MODULE MCTouch ------------------------------
(* Sample values for checking Touch, on both sides of every threshold.     *)
EXTENDS Touch

MCWord == 0..4095

\* Words a panel gives while it may or may not be touched.
AnySamples == [a \in {"Z", "X", "Y"} |->
                 CASE a = "Z" -> {120, 121}
                   [] a = "X" -> {176, 3903}
                   [] a = "Y" -> {337, 3940}]
=============================================================================
