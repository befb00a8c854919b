------------------------------ MODULE MCMonitor ------------------------------
(* Three digits make addresses of 3^8 and bytes of 3^2: the smallest in which a
   byte can tell the types of records apart. *)
EXTENDS Monitor

MCDigit == <<"0", "1", "F">>

MCUpper == [c \in {"d", "f", "x"} |-> CASE c = "d" -> "D" [] c = "f" -> "F" [] OTHER -> "X"]

At == RAM + 7
Slips == {<<>>, <<"BS", "x", "BS">>, <<"x", "d", "CAN", "ESC">>}

Dumps == [kind : {"D"}, from : {None, 7, At, ADDR - 3, ADDR - ROW * ROWS - 1},
          to : {None, At + 4, At + 5}, slip : {<<>>}]
         \cup [kind : {"D"}, from : {ADDR - 3}, to : {ADDR - 1}, slip : {<<>>}]
         \cup [kind : {"D"}, from : {7}, to : {None}, slip : Slips]

Fills == [kind : {"F"}, from : {At}, to : {At, At + 1, At - 1}, byte : {1, BYTE + 2}]
         \cup [kind : {"F"}, from : {ADDR - 2}, to : {0}, byte : {1}]
         \cup [kind : {"F"}, from : {0}, to : {ADDR - 1}, byte : {1}]

Sets == [kind : {"S"}, from : {At, ADDR - 1},
         answers : {<<Leave>>, <<1, 2, Back, 5, Leave>>, <<None, BYTE + 1, Leave>>,
                    <<Back, 3, Leave>>}]

R(type, off, data)   == [type |-> type, off |-> off, data |-> data, bad |-> FALSE]
Bad(type, off, data) == [type |-> type, off |-> off, data |-> data, bad |-> TRUE]

Eof == R(1, 0, <<>>)
MCFiles ==
    {<<R(0, 0, <<1, 2>>), R(0, 2, <<3>>), Eof>>,
     <<R(LINEAR, 0, <<4, 5>>), R(0, 80, <<1, 2>>), R(ENTRY, 0, <<3, 0, 0, 7>>), Eof>>,
     <<R(0, 9, <<1>>), Bad(0, 3, <<7, 8>>), R(0, 5, <<2>>), Eof>>,
     <<R(0, 0, <<1>>), R(2, 0, <<8, 0>>), R(0, 5, <<2>>), Eof>>,
     <<Bad(LINEAR, 0, <<4, 5>>), R(0, 0, <<2>>), Eof>>,
     <<R(0, 0, <<1, 2, 3, 4, 5, 6, 7, 8>>), R(0, 5, <<6>>), Eof>>,
     <<R(0, 0, <<1, 2, 3, 4, 5, 6>>), R(0, 6, <<1, 2, 3, 4, 5, 6, 7>>), R(0, 5, <<6>>), Eof>>}

Others == [kind : {"other"}, keys : {<<>>, <<"=">>, <<"X", "1">>, <<"D", "x">>, <<"f", "1", ",", "2">>,
                                     [i \in 1..(LINE + 1) |-> "x"]}, slip : {<<>>}]
          \cup [kind : {"G"}, keys : {<<"G">>}, slip : {<<>>}]
          \cup [kind : {"T"}, keys : {<<"T">>}, slip : {<<>>}]

MCFollowers ==
    {[kind |-> "D", from |-> None, to |-> None, slip |-> <<>>],
     [kind |-> "F", from |-> At, to |-> At + 1, byte |-> 1],
     [kind |-> "!", file |-> <<Bad(LINEAR, 0, <<4, 5>>), R(0, 0, <<2>>)>>],
     [kind |-> "R", file |-> <<R(0, 1, <<8>>), Eof>>]}

MCCommands == Dumps \cup Fills \cup Sets \cup [kind : {"R", "!"}, file : MCFiles] \cup Others
=============================================================================
