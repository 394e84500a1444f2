---------------------------- MODULE MCTextFiles -----------------------------
(* TextFiles for TLC: one or two directories with up to three metrics.       *)
EXTENDS TextFiles, TLC

Labels == {<<>>} \cup {"a" :> v : v \in {"", "x", "y"}}
Family(n, k) == UNION {[1..i -> [name : {n}, labels : Labels]] : i \in 1..k}
File(n, bad, ms) == [name |-> n, bad |-> bad, metrics |-> ms]
Dir(fs, b) == [files |-> fs, broken |-> b]
TextInputs ==
  {<<Dir(<<File("1", FALSE, f)>>, FALSE)>> : f \in Family("m", 3)}
    \cup {<<Dir(<<File("1", bad, f)>>, FALSE), Dir(<<File(n, FALSE, g)>>, b)>> :
            f \in Family("m", 2), g \in Family("m", 2), n \in {"1", "2"}, bad \in BOOLEAN, b \in BOOLEAN}
    \cup {<<Dir(<<File("1", FALSE, f \o g), File("2", FALSE, h)>>, FALSE)>> :
            f \in Family("m", 1), g \in Family("n", 2), h \in Family("m", 2)}
TextMetrics == [name : {"m", "n"}, labels : Labels]
=============================================================================
