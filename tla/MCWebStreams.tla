---------------------------- MODULE MCWebStreams ----------------------------
(* WebStreams with every shape the script can build. *)
EXTENDS WebStreams

Plan(shape, source, sink, transform, join, fails, twice) ==
  [shape |-> shape, source |-> source, sink |-> sink, transform |-> transform,
   join |-> join, fails |-> fails, twice |-> twice]
Sources == {"start", "push", "pull", "asyncPull"}

MCPlans ==
  {Plan("read", s, "now", "now", "none", f, t) : s \in Sources, f \in BOOLEAN, t \in BOOLEAN}
  \cup {Plan("tee", s, "now", "now", "none", f, FALSE) : s \in Sources, f \in BOOLEAN}
  \cup {Plan("pipe", s, d, "now", "none", f, FALSE) :
          s \in Sources, d \in {"now", "later"}, f \in BOOLEAN}
  \cup {Plan("through", s, d, t, "none", f, FALSE) :
          s \in Sources, d \in {"now", "later"}, t \in {"now", "later"}, f \in BOOLEAN}
  \cup {Plan("write", "start", d, "now", j, FALSE, FALSE) :
          d \in {"now", "later"}, j \in {"all", "race", "any", "allSettled"}}
=============================================================================
