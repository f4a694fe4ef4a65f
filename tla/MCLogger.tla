------------------------------ MODULE MCLogger ------------------------------
(* Instances of Logger for TLC. *)
EXTENDS Logger

Message(level, pieces, filename, line) ==
    [level |-> level, pieces |-> pieces, filename |-> filename, line |-> line]

(* In a buffer of 80 bytes: the least short, zero with just enough room    *)
(* for a number, a number and a text that find too little, a line whose    *)
(* newline does not fit, a FATAL message, and behind it a line with just   *)
(* kMaxNumberSize bytes to spare.                                          *)
MCMessages ==
    <<Message("INFO", <<>>, <<3, 4>>, 7),
      Message("ERROR", <<<<"num", -32768>>>>, <<3>>, 120),
      Message("INFO", <<<<"text", 18>>, <<"num", 0>>>>, <<5>>, 30),
      Message("INFO", <<<<"text", 19>>, <<"num", 9>>>>, <<3, 3, 5>>, 10),
      Message("INFO", <<<<"text", 37>>>>, <<8>>, 99),
      Message("WARN", <<<<"text", 60>>, <<"num", 32767>>>>, <<5>>, 1),
      Message("FATAL", <<<<"num", -10>>>>, <<3>>, 15),
      Message("INFO", <<<<"text", 8>>>>, <<3>>, 16)>>

MCLineLen == [i \in 1..MaxLines |-> Text(MCMessages[i]).size]
=============================================================================
