-------------------------- MODULE MCExecutionQueues --------------------------
(* Two tabs, and one plan of each shape that asks for lanes differently. *)
EXTENDS ExecutionQueues

On(t) == [tab |-> t, lane |-> NoLane]            \* javascript, reload, screenshot ...
Typed(t) == [tab |-> t, lane |-> Input]          \* click, keyboard, scroll, focus
Created == [tab |-> NoLane, lane |-> Creation]   \* navigate to a new tab
Proxied == [tab |-> NoLane, lane |-> Proxy]
Single(a) == [batch |-> FALSE, actions |-> <<a>>]
Batch(s) == [batch |-> TRUE, actions |-> s]

TabPlans ==
  {Single(On(1)), Single(On(2)), Single(Typed(1)), Single(Typed(2)),
   Batch(<<On(1), On(2)>>), Batch(<<Typed(2), On(1)>>), Batch(<<Typed(1), Created>>)}

LanePlans ==
  {Single(Created), Single(Proxied), Single(Typed(1)),
   Batch(<<On(1), Typed(2), Proxied>>), Batch(<<Proxied, Created>>), Batch(<<Typed(1), Created>>)}

AllPlans == TabPlans \cup LanePlans
=============================================================================
