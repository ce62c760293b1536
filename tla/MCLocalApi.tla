----------------------------- MODULE MCLocalApi -----------------------------
(***************************************************************************)
(* Commands for model checking LocalApi: payloads with and without blanks, *)
(* at the limit of a transfer and above it, at the end of the region and   *)
(* past it.                                                                *)
(***************************************************************************)
EXTENDS LocalApi

Command(op, offset, length) == [op |-> op, offset |-> offset, length |-> length, data |-> <<>>]

Write(offset, data) == [op |-> "WRITE", offset |-> offset, length |-> Len(data), data |-> data]

TestRequests ==
    {Command("PING", 0, 0), Command("STATUS", 0, 0), Command("READ", 1, 1), Command("READ", 0, 3),
     Write(0, <<"ink", "blank">>), Write(0, <<"blank", "ink">>), Write(1, <<"blank">>),
     Write(1, <<"ink", "ink">>), Write(0, <<"ink", "ink", "ink">>)}

=============================================================================
