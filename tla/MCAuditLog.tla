---------------------------- MODULE MCAuditLog ----------------------------
(* AuditLog on small instances.                                              *)
EXTENDS AuditLog

CONSTANTS a1, a2, registered, denied, bogus, allow, deny

Input(type, agent, decision) == [type |-> type, agent |-> agent, decision |-> decision]

\* Two inputs that are admitted and one of each kind that is not.
MCInputs ==
  {Input(registered, a1, allow), Input(denied, a2, deny),
   Input(bogus, a1, allow), Input(registered, a2, bogus)}

\* No filter, one, and all three.
MCFilters ==
  {Input(Any, Any, Any), Input(Any, a1, Any), Input(denied, a2, deny)}

\* Below a microsecond, which rounds down to 0, and after it.
MCTimes == {1, 2}
===========================================================================
