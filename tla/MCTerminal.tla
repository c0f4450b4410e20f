----------------------------- MODULE MCTerminal -----------------------------
(* Instances of Terminal for TLC.                                           *)
EXTENDS Terminal

\* Terminals that print, left and found again by a second connection: two lines
\* and a character of two bytes; a long line with one of three bytes; a stray
\* continuation byte.
Printing ==
    {[prints |-> p, ids |-> {1}, ops |-> {"open"}, acts |-> <<1, 1>>, fails |-> 0,
      persistent |-> {TRUE}, events |-> {}] :
        p \in {<<"ascii", "newline", "lead2", "cont">>, <<"ascii", "lead3", "cont", "cont">>,
               <<"cont", "lead2">>}}

\* Shells that print nothing.
Quiet(ids, ops, n, persistent, events) ==
    [prints |-> <<>>, ids |-> ids, ops |-> ops, acts |-> n, fails |-> 0,
     persistent |-> persistent, events |-> events]

\* Shells that end, services that idle, terminals that are closed, ids that are
\* given anew, persistence that changes, sizes that change, a third connection.
Coming ==
    {Quiet({1}, {"open"}, <<1, 1>>, {p}, {"exit"}) : p \in BOOLEAN}
    \union {Quiet({1}, {"open"}, <<1, 1>>, {FALSE}, {"idle"}),
            Quiet({1}, {"open", "close"}, <<2, 1>>, {FALSE}, {}),
            Quiet({1, 2}, {"open"}, <<1, 1>>, {TRUE}, {}),
            Quiet({1}, {"open"}, <<1, 1>>, BOOLEAN, {"full"}),
            Quiet({1}, {"open"}, <<1, 1, 1>>, {TRUE}, {}),
            [Quiet({1}, {"open", "resize"}, <<1, 2>>, {TRUE}, {}) EXCEPT !.fails = 1]}

MCWorkloads == Printing \union Coming

\* A client that watches the output of its terminal and types nothing.
Watching ==
    {[prints |-> <<"ascii">>, ids |-> {1}, ops |-> {"open"}, acts |-> <<1>>, fails |-> 0,
      persistent |-> {FALSE}, events |-> {"idle"}]}
=============================================================================
