----------------------------- MODULE MCService -----------------------------
(* One process that works and schedules.  It finds the service loaded.     *)
EXTENDS OperationalAlerts

MCRoles == [i \in Instance |-> Role]

MCQuiet == [pending |-> 0, oldest |-> 0, pages |-> 0, errors |-> 0]

MCLoaded == [pending |-> 1, oldest |-> 2, pages |-> 4, errors |-> 1]

MCLoads == {MCQuiet, MCLoaded}
=============================================================================
