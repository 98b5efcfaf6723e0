--------------------------- MODULE MCAdminAccess ---------------------------
(* Instances of AdminAccess for TLC: two ways to write one address. *)
EXTENDS AdminAccess

CONSTANTS asWritten, lowerCase, api1

MCAddress == [e \in Emails |-> lowerCase]

Told(email, password) == [email |-> email, password |-> password]
Within(starts, logins, faults) == [starts |-> starts, logins |-> logins, faults |-> faults]
Complete(p) == Told(IF p = api1 THEN asWritten ELSE lowerCase, "long")

InTwoSpellings == [p \in Processes |-> Complete(p)]
OnlyFirst == [p \in Processes |-> IF p = api1 THEN Complete(p) ELSE Told(lowerCase, "short")]
OnlySecond == [p \in Processes |-> IF p = api1 THEN Told(Unset, "none") ELSE Complete(p)]

\* One deployment starts processes that have an administrator to create; the
\* others let administrators in, twice, or once and with a fault.
MCDeployments ==
  {[environment |-> InTwoSpellings, left |-> Within(3, 0, 0)],
   [environment |-> OnlySecond, left |-> Within(2, 0, 0)],
   [environment |-> OnlyFirst, left |-> Within(1, 2, 0)],
   [environment |-> OnlyFirst, left |-> Within(2, 1, 1)]}

MCAdvised == {[environment |-> InTwoSpellings, left |-> Within(2, 0, 0)]}
===============================================================================
