---------------------------- MODULE ClientsProofs ----------------------------
(* A theorem about the session a device keeps, for any number of logins and *)
(* kills of the app, on a phone and in a browser.                           *)
EXTENDS Clients, TLAPS

Empty == \A p \in PartNames : saved[p] = None

\* All parts are of one login.  Between the first part that a save writes and
\* the last that a clear removes there is an access token, so that an app that
\* finds none starts from an empty store.
DeviceOK ==
  /\ saved \in [PartNames -> Nullable(TokenIds)]
  /\ status = "save" => login \in TokenIds
  /\ ~torn =>
       /\ \A p, q \in PartNames :
            saved[p] # None /\ saved[q] # None => saved[p] = saved[q]
       /\ saved["access"] = None /\ status # "clear" => Empty
       /\ status = "unauthenticated" => Empty
       /\ status = "save" => \A p \in PartNames : saved[p] \in {None, login}

LEMMA ThreeParts ==
  /\ DOMAIN Parts = {1, 2, 3} /\ Len(Parts) = 3
  /\ Parts[1] = "access" /\ Parts[2] = "refresh" /\ Parts[3] = "tenant"
  /\ PartNames = {"access", "refresh", "tenant"}
<1>1. /\ DOMAIN Parts = {1, 2, 3} /\ Len(Parts) = 3
      /\ Parts[1] = "access" /\ Parts[2] = "refresh" /\ Parts[3] = "tenant"
  BY DEF Parts
<1> QED
  BY <1>1 DEF PartNames

LEMMA TokenIsNotNone == None \notin TokenIds
BY SessionsAssumption

LEMMA ReceiveLoginOK ==
  ASSUME DeviceOK, NEW k \in TokenIds, ReceiveLogin(k)
  PROVE  DeviceOK'
BY DEF ReceiveLogin, DeviceOK, Empty

LEMMA SavePartOK ==
  ASSUME DeviceOK, NEW i \in DOMAIN Parts, SavePart(i)
  PROVE  DeviceOK'
<1>1. /\ status = "save" /\ login \in TokenIds /\ login # None
      /\ saved' = [saved EXCEPT ![Parts[i]] = login]
      /\ status' \in {"save", "authenticated"} /\ UNCHANGED <<login, torn>>
      /\ Parts[i] \in PartNames
  BY TokenIsNotNone DEF SavePart, DeviceOK, PartNames
<1>2. saved' \in [PartNames -> Nullable(TokenIds)]
  BY <1>1 DEF DeviceOK, Nullable
<1>3. saved'["access"] # None
  <2>1. CASE i = 1
    BY <1>1, <2>1, ThreeParts DEF DeviceOK
  <2>2. CASE i # 1
    <3>1. saved["access"] = login
      BY <2>2, ThreeParts DEF SavePart
    <3> QED
      BY <1>1, <3>1, ThreeParts DEF DeviceOK
  <2> QED
    BY <2>1, <2>2
<1>4. ~torn => \A p \in PartNames : saved'[p] \in {None, login}
  BY <1>1 DEF DeviceOK
<1> QED
  BY <1>1, <1>2, <1>3, <1>4 DEF DeviceOK

LEMMA ClearOK ==
  ASSUME DeviceOK, Clear
  PROVE  DeviceOK'
<1>1. CASE store = "secure"
  <2>1. /\ saved' = [p \in PartNames |-> None] /\ UNCHANGED torn
        /\ status' = "unauthenticated"
    BY <1>1 DEF Clear
  <2> QED
    BY <2>1, ThreeParts DEF DeviceOK, Empty, Nullable
<1>2. CASE store # "secure"
  <2>1. saved' = saved /\ status' = "clear" /\ UNCHANGED <<login, torn>>
    BY <1>2 DEF Clear
  <2> QED
    BY <2>1 DEF DeviceOK
<1> QED
  BY <1>1, <1>2

LEMMA RemovePartOK ==
  ASSUME DeviceOK, NEW i \in DOMAIN Parts, RemovePart(i)
  PROVE  DeviceOK'
<1>1. /\ status = "clear" /\ saved' = [saved EXCEPT ![Parts[i]] = None]
      /\ UNCHANGED <<login, torn>> /\ Parts[i] \in PartNames
  BY DEF RemovePart, PartNames
<1>2. saved' \in [PartNames -> Nullable(TokenIds)]
  BY <1>1 DEF DeviceOK, Nullable
<1>3. ~torn => \A p, q \in PartNames :
        saved'[p] # None /\ saved'[q] # None => saved'[p] = saved'[q]
  BY <1>1 DEF DeviceOK
<1>4. CASE i = 3
  <2>1. saved["access"] = None /\ saved["refresh"] = None
    BY <1>4, ThreeParts DEF RemovePart
  <2>2. Empty' /\ status' = "unauthenticated"
    BY <1>1, <1>4, <2>1, ThreeParts DEF Empty, DeviceOK, RemovePart
  <2> QED
    BY <1>1, <1>2, <1>3, <2>2 DEF DeviceOK
<1>5. CASE i # 3
  <2>1. status' = "clear"
    BY <1>5, ThreeParts DEF RemovePart
  <2> QED
    BY <1>1, <1>2, <1>3, <2>1 DEF DeviceOK
<1> QED
  BY <1>4, <1>5

LEMMA KillOK ==
  ASSUME DeviceOK, Kill
  PROVE  DeviceOK'
<1>1. /\ saved' = saved /\ status' = "unknown"
      /\ ~torn' => ~torn /\ ~(status = "clear" /\ saved["access"] = None)
  BY DEF Kill
<1> QED
  BY <1>1 DEF DeviceOK, Empty

LEMMA BootstrapOK ==
  ASSUME DeviceOK, Bootstrap
  PROVE  DeviceOK'
BY DEF Bootstrap, DeviceOK, Empty

\* Whenever the app is killed, the access token and the tenant its requests
\* carry are of one login, unless a browser's clear was cut off.
THEOREM RequestsOfOneLogin == ClientsSpec => []NoMixedSession
<1>1. ClientsInit => DeviceOK
  BY ThreeParts DEF ClientsInit, DeviceOK, Empty, Nullable
<1>2. DeviceOK /\ [ClientsNext]_<<vars, deviceVars>> => DeviceOK'
  <2> SUFFICES ASSUME DeviceOK, [ClientsNext]_<<vars, deviceVars>>
               PROVE  DeviceOK'
    OBVIOUS
  <2>1. CASE DeviceNext
    BY <2>1, BootstrapOK, ClearOK, KillOK, ReceiveLoginOK, SavePartOK,
       RemovePartOK DEF DeviceNext
  <2>2. CASE UNCHANGED deviceVars
    BY <2>2 DEF deviceVars, DeviceOK, Empty
  <2> QED
    BY <2>1, <2>2 DEF ClientsNext
<1>3. DeviceOK => NoMixedSession
  BY DEF DeviceOK, NoMixedSession
<1> QED
  BY <1>1, <1>2, <1>3, PTL DEF ClientsSpec

=============================================================================
