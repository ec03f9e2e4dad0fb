--------------------------- MODULE MCRealtimeTests ---------------------------
(***************************************************************************)
(* Two functions and every test of three calls; three functions that call  *)
(* each other in every way, and tests that call two of them.               *)
(***************************************************************************)
EXTENDS RealtimeTests, TLC

CONSTANTS f, g, h
MCLocal == {f, g, h}
MCLocalPaths == {h}

Upto(calls, n) == UNION {[1..k -> calls] : k \in 0..n}
Bodies(calls) == Upto(calls, 2) \union {NoBody}

MCCrates ==
  { {[kind |-> "test", test |-> t, bodies |-> (f :> b @@ g :> c @@ h :> << >>)] :
       t \in Upto({f, g, h, "time", "instant", "paused"}, 3), b \in Bodies({f, g, "time"}), c \in Bodies({f, "time", "other"})},
    {[kind |-> "test", test |-> t, bodies |-> (f :> b @@ g :> c @@ h :> d)] :
       t \in {<<f, g>>, <<g, f>>}, b \in Upto({g, h}, 2), c \in Upto({f, g, h, "time"}, 2), d \in Upto({f, g, "time"}, 2)},
    {[kind |-> "helper", test |-> <<"time">>, bodies |-> (f :> << >> @@ g :> << >> @@ h :> << >>)]} }
=============================================================================
