----------------------------- MODULE MCFirmware -----------------------------
(* The names and formats of src/briey/main.c, and what a program may call. *)
EXTENDS Firmware

Text(s) == [i \in 1..Len(s) |-> SubSeq(s, i, i)]

MCExports == [i \in 1..15 |-> Text(
    <<"malloc", "xprintf", "console_clear", "console_scroll", "console_putc", "console_puts",
      "pollkey", "key_getc", "pollrx", "polltx", "uart_init", "uart_getc", "uart_putc",
      "uart_puts", "_uart_wait">>[i])]
MCAddressOf == [i \in 1..15 |-> i]
MCAddresses == 0..17

\* Names shorter and longer than main's, and one that is cut to console_clear.
MCOwnNames == {Text("mal"), Text("console_cleanup"), Text("polltxt")}
MCNames == {MCExports[i] : i \in 1..15} \cup MCOwnNames
MCLines == [i \in 1..5 |-> Text(
    <<"sys_mepc = %08X", "sys_mcause = %08X", "sys_uepc = %08X", "sys_ucause = %08X",
      "SYSCALL(%d) = %08X">>[i]) \o <<"LF">>]

Letters == {"_", "a", "b", "c", "d", "e", "f", "g", "h", "i", "k", "l", "m", "n", "o",
            "p", "r", "s", "t", "u", "w", "x", "y"}

Args == {0, 9, 255, 4096, 32768, 65336, 65535}
MCCalls ==
    [flag : {<<>>, <<"0">>, <<"-">>}, width : {<<>>, <<"1">>, <<"6">>}, star : {0},
     type : {"d", "u", "x", "X", "b", "o"}, arg : Args]
    \cup [flag : {<<>>, <<"0">>, <<"-">>}, width : {<<"*">>}, star : {6, 65530},
          type : {"d", "X"}, arg : Args]
    \cup [flag : {<<>>, <<"-">>}, width : {<<>>, <<"3">>}, star : {0},
          type : {"s"}, arg : {<<>>, Text("ab"), Text("abcd")}]

MCTexts == {Text("pqr")}
=============================================================================
