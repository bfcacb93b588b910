------------------------------ MODULE Session ------------------------------
(***************************************************************************)
(* What running scsitb again and again promises to the devices and to the  *)
(* user.  A run serves one device at most: the first that its command line *)
(* means, but for those it may not know of because something failed there. *)
(* It serves it in one step, that makes the changes asked for, or none,    *)
(* and it ends without having done so only when it knows of none of them.  *)
(* A request that does not get through whole has less of a promise: that   *)
(* one device is served and no other is changed, or that none is.          *)
(* Module Scsitb implements it.                                            *)
(***************************************************************************)
EXTENDS Integers

VARIABLES settings,  \* what each device keeps: its debug flag and its image
          request,   \* the devices this run is meant for, and what is asked of them
          missed,    \* devices this run may not know of
          served,    \* devices this run has sent something
          shown,     \* what was printed of the debug flag
          status     \* "running", "done", "failed" or "crashed"

sesVars == <<settings, request, missed, served, shown, status>>

Devices == DOMAIN settings

Requested ==
    /\ request.devices \subseteq Devices
    /\ \E fields \in SUBSET {"debug", "image"} : request.changes \in [fields -> 0..255]
    /\ request.shows \in BOOLEAN /\ request.copies \in BOOLEAN
    /\ request.heard \in {"whole", "garbled", "refused"}

Start ==
    /\ Requested
    /\ missed = {} /\ served = {} /\ shown = {}
    /\ status = "running"

Init ==
    /\ settings = [t \in Devices |-> [debug |-> 0, image |-> 0]]
    /\ Start

\* Something fails at a device, or the search is given up: it may not be known.
Misses == missed \subseteq missed' /\ missed' \subseteq Devices

Miss ==
    /\ status = "running" /\ served = {}
    /\ Misses
    /\ UNCHANGED <<settings, request, served, shown, status>>

\* The device this run may serve: no device before it is known.
First == {t \in request.devices : \A u \in request.devices : u < t => u \in missed}

Changed(t) ==
    [f \in DOMAIN settings[t] |->
        IF f \in DOMAIN request.changes THEN request.changes[f] ELSE settings[t][f]]

\* What the settings may be after t has been served.  Of a request that is garbled
\* nobody knows what it does to t, only that it does nothing to the others.
Outcome(t) ==
    IF request.heard = "whole"
    THEN settings' \in {settings, [settings EXCEPT ![t] = Changed(t)]}
    ELSE /\ settings' \in [Devices -> [debug : 0..255, image : 0..255]]
         /\ \A u \in Devices \ {t} : settings'[u] = settings[u]

\* The device does as it was asked, or it fails, before or after it has.
Serve ==
    /\ status = "running" /\ served = {}
    /\ request.heard # "refused"
    /\ \E t \in First :
         /\ served' = {t}
         /\ Outcome(t)
         /\ shown' # {} => request.shows /\ shown' = {settings'[t].debug}
    /\ UNCHANGED <<request, missed, status>>

\* A setting is not passed over if a device for it is known, unless it was refused.
Heeded ==
    (DOMAIN request.changes # {} \/ request.shows) /\ request.heard # "refused" =>
        served # {} \/ request.devices \subseteq missed

\* A run that says it failed has touched no device; one that does not may have
\* failed all the same.
End ==
    /\ status = "running" /\ Heeded
    /\ \/ status' = "done"
       \/ status' = "failed" /\ served = {}
    /\ UNCHANGED <<settings, request, missed, served, shown>>

\* A copy may crash the run when the device has been asked for some of it already.
Crash ==
    /\ status = "running" /\ served = {}
    /\ status' = "crashed"
    /\ \/ Misses /\ UNCHANGED served
       \/ request.copies /\ UNCHANGED missed /\ \E t \in First : served' = {t}
    /\ UNCHANGED <<settings, request, shown>>

\* The next run.  The devices keep their settings.
Again ==
    /\ status # "running"
    /\ Start'
    /\ UNCHANGED settings

Next == Miss \/ Serve \/ End \/ Crash \/ Again

Spec == Init /\ [][Next]_sesVars
=============================================================================
