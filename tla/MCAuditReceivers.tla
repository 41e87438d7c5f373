------------------------- MODULE MCAuditReceivers --------------------------
(* Two worlds: adapters that share a file, with a service that answers or does not; and one adapter
   for a service that does everything the client tells apart. *)
EXTENDS AuditReceivers
CONSTANTS p1

TheWorlds ==
    {[keys |-> {[path |-> p1, http |-> TRUE], [path |-> p1, http |-> FALSE]},
      kinds |-> {"user"}, statuses |-> {200}, headers |-> {None}, times |-> {0}],
     [keys |-> {[path |-> None, http |-> TRUE]},
      kinds |-> Kinds, statuses |-> {200, 302, 400, 429, 501, 503}, headers |-> {None, 2, 20, 100000},
      times |-> {0, Timeout}]}
=============================================================================
