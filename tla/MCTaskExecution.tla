--------------------------- MODULE MCTaskExecution ---------------------------
(* Two tasks of two worker processes.  The first publishes the same content   *)
(* twice.  They need the same two packages, in opposite orders; both packages *)
(* export one name.  Commit 2 reads a secret by default.                      *)
EXTENDS TaskExecution

MCExports(e) == IF e = "a" THEN {"x", "y"} ELSE {"x"}
MCDepends(k) == IF k = 1 THEN <<"a">> ELSE <<"b">>
MCDefaults(k) == IF k = 1 THEN {} ELSE {"s"}
MCInvocation(t) ==
    CASE t = "f" -> [pin |-> 0, workspace |-> <<"a">>, allowed |-> {"s"}, objects |-> <<"o", "o">>, attempts |-> 2]
      [] t = "u" -> [pin |-> 0, workspace |-> <<"b">>, allowed |-> {}, objects |-> <<>>, attempts |-> 1]
=============================================================================
