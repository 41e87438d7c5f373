---------------------------- MODULE LinkRegistry ----------------------------
(***************************************************************************)
(* What the URL store promises its clients, with no file, no index and no  *)
(* restart: a short code, once published, stands for one URL for ever; a   *)
(* link can be retired and never comes back; and two active links never    *)
(* share a URL as long as no write to the file has failed.                 *)
(***************************************************************************)
CONSTANTS
    Codes, URLs,
    NoLink      \* the code was never published; not itself a link

VARIABLES
    links,      \* short code -> what it stands for
    degraded    \* a write has failed

Init ==
    /\ links = [c \in Codes |-> NoLink]
    /\ degraded = FALSE

Published(c) == links[c] # NoLink

(* A new code; its URL has no other active link, unless the store is degraded. *)
Publish(c, u) ==
    /\ ~Published(c)
    /\ degraded \/ \A d \in Codes : Published(d) /\ links[d].url = u => ~links[d].active
    /\ links' = [links EXCEPT ![c] = [url |-> u, active |-> TRUE]]
    /\ UNCHANGED degraded

(* Some links are retired, and keep their URL.  After a failed write a client may also retire
   a code whose publication was reported as failed. *)
Retire(codes) ==
    /\ \A c \in codes : /\ Published(c) \/ degraded
                        /\ links'[c] \in [url : URLs, active : {FALSE}]
                        /\ Published(c) => links'[c].url = links[c].url
    /\ links' = [c \in Codes |-> IF c \in codes THEN links'[c] ELSE links[c]]
    /\ UNCHANGED degraded

Degrade == degraded' = TRUE /\ UNCHANGED links

Next ==
    \/ \E c \in Codes, u \in URLs : Publish(c, u)
    \/ \E codes \in SUBSET Codes : Retire(codes)
    \/ Degrade

Spec == Init /\ [][Next]_<<links, degraded>>
=============================================================================
