------------------------------ MODULE Clients ------------------------------
(***************************************************************************)
(* The session a device of the Flutter client keeps                        *)
(* (src/apps/mobile/lib/core/auth): after a login it writes the access     *)
(* token, the refresh token and the tenant one by one, a logout clears     *)
(* them, and the app, when it starts, takes an access token in the store   *)
(* for a session.  The client never refreshes, and tells the server        *)
(* nothing of a logout.                                                    *)
(*                                                                         *)
(* A part in the store is known by the login it came from.                 *)
(***************************************************************************)
EXTENDS Sessions

CONSTANTS
  DeviceBudgets,   \* the histories of Sessions a device takes part in
  MaxKills         \* how often the app is killed (bound)

VARIABLES
  store,    \* "secure" on a phone, "prefs" in a browser, or no device
  saved,    \* the login each stored part belongs to
  status,   \* the AuthStatus of the app, or what it is busy with
  login,    \* the login being saved
  torn,     \* was a clear cut off between two removals?
  kills     \* how often the app was killed

deviceVars == <<store, saved, status, login, torn, kills>>

\* In the order they are written and removed.
Parts == <<"access", "refresh", "tenant">>

PartNames == {Parts[i] : i \in DOMAIN Parts}

Statuses == {"unknown", "authenticated", "unauthenticated", "save", "clear"}

ClientsInit ==
  /\ Init
  /\ store \in IF budget \in DeviceBudgets THEN {"secure", "prefs"} ELSE {None}
  /\ saved = [p \in PartNames |-> None]
  /\ status = "unknown"
  /\ login = None
  /\ torn = FALSE
  /\ kills = 0

\* _bootstrap: an access token is all it looks for.
Bootstrap ==
  /\ status = "unknown"
  /\ status' = IF saved["access"] # None THEN "authenticated"
                                         ELSE "unauthenticated"
  /\ UNCHANGED <<store, saved, login, torn, kills>>

\* The answer to a login of this device's user arrives.
ReceiveLogin(k) ==
  /\ status = "unauthenticated"
  /\ tokens[k] # None /\ tokens[k].known /\ tokens[k].root = k
  /\ login' = k
  /\ status' = "save"
  /\ UNCHANGED <<store, saved, torn, kills>>

\* save: the parts are written in turn; the state follows the last.
SavePart(i) ==
  /\ status = "save"
  /\ saved[Parts[i]] # login
  /\ \A j \in 1..(i - 1) : saved[Parts[j]] = login
  /\ saved' = [saved EXCEPT ![Parts[i]] = login]
  /\ status' = IF i = Len(Parts) THEN "authenticated" ELSE "save"
  /\ UNCHANGED <<store, login, torn, kills>>

\* Mutant of Clear: the tenant, chosen once, is kept.
ClearTokens ==
  /\ status = "authenticated"
  /\ IF store = "secure"
     THEN /\ saved' = [saved EXCEPT !["access"] = None, !["refresh"] = None]
          /\ status' = "unauthenticated"
     ELSE saved' = saved /\ status' = "clear"
  /\ UNCHANGED <<store, login, torn, kills>>

\* logout: a phone deletes everything at once, a browser part by part.
Clear ==
  /\ status = "authenticated"
  /\ IF store = "secure"
     THEN /\ saved' = [p \in PartNames |-> None]
          /\ status' = "unauthenticated"
     ELSE saved' = saved /\ status' = "clear"
  /\ UNCHANGED <<store, login, torn, kills>>

RemovePart(i) ==
  /\ status = "clear"
  /\ \A j \in 1..(i - 1) : saved[Parts[j]] = None
  /\ saved[Parts[i]] # None \/ i = Len(Parts)
  /\ saved' = [saved EXCEPT ![Parts[i]] = None]
  /\ status' = IF i = Len(Parts) THEN "unauthenticated" ELSE "clear"
  /\ UNCHANGED <<store, login, torn, kills>>

\* The app is killed, or the page reloaded, and starts again.
Kill ==
  /\ kills < MaxKills
  /\ kills' = kills + 1
  /\ torn' = (torn \/ (status = "clear" /\ saved["access"] = None))
  /\ status' = "unknown"
  /\ login' = None
  /\ UNCHANGED <<store, saved>>

DeviceNext ==
  /\ store # None
  /\ \/ Bootstrap \/ Clear \/ Kill
     \/ \E k \in TokenIds : ReceiveLogin(k)
     \/ \E i \in DOMAIN Parts : SavePart(i) \/ RemovePart(i)

ClientsNext ==
  \/ Next /\ UNCHANGED deviceVars
  \/ DeviceNext /\ UNCHANGED vars

ClientsSpec == ClientsInit /\ [][ClientsNext]_<<vars, deviceVars>>

-----------------------------------------------------------------------------
\* The requests of a device carry an access token and a tenant read one by one
\* from the store (api_client.dart:24-31): those it has are of one login,
\* whenever the app is killed, unless a browser's clear was cut off.
NoMixedSession ==
  ~torn => \A p, q \in PartNames :
    saved[p] # None /\ saved[q] # None => saved[p] = saved[q]

=============================================================================
