------------------------ MODULE AgentIdentity_proofs ------------------------
(***************************************************************************)
(* Proofs about AgentIdentity.tla, for any sets of identifiers, ages and   *)
(* number of faults.                                                       *)
(***************************************************************************)
EXTENDS AgentIdentity, FiniteSetTheorems, TLAPS

-----------------------------------------------------------------------------
(* The parts of the type invariant.                                        *)

ServerOK ==
  /\ rows \subseteq Devices /\ doubled \subseteq rows
  /\ live \in [Tokens -> [dev : Devices \union {NoDevice}, age : 0 .. Lifetime]]
  /\ \A t \in Tokens : live[t] = NoRow \/ live[t].dev \in rows

RequestsOK == req \in [Slots -> Request]

\* Who waits, waits for one request; the others have no reply.
WaitingOK ==
  /\ slot \in Slots \union {0}
  /\ (slot = 0 <=> apc \in {"down", "loop"})
  /\ \A s \in Slots : s # slot => req[s].stage \in {"none", "sent", "read"}

AgentOK ==
  /\ apc \in {"down", "loop", "beat", "first", "again"}
  /\ mem \in Cred /\ worker \in Cred /\ saved \in Cred \union {Torn}
  /\ faults \in 0 .. MaxFaults

FlagsOK == twins \in BOOLEAN /\ heard \in BOOLEAN

LEMMA TypeParts == TypeOK <=> ServerOK /\ RequestsOK /\ WaitingOK /\ AgentOK /\ FlagsOK
BY DEF TypeOK, ServerOK, RequestsOK, WaitingOK, AgentOK, FlagsOK

-----------------------------------------------------------------------------
(* The operators.                                                          *)

LEMMA Constants ==
  /\ NoCred \in Cred /\ NoRequest \in Request
  /\ \A op \in {"register", "heartbeat"}, c \in Cred : \A s : Send(s, op, c) \in Request
<1>1. NoCred \in Cred
  BY DEF NoCred, Cred
<1> HIDE DEF Cred
<1>2. NoRequest \in Request
  BY <1>1 DEF NoRequest, Request
<1>3. \A op \in {"register", "heartbeat"}, c \in Cred : \A s : Send(s, op, c) \in Request
  BY <1>1 DEF Send, NoRequest, Request
<1>4. QED
  BY <1>1, <1>2, <1>3

\* The choice of an identifier is one of an unused identifier.
LEMMA NewTokenFacts ==
  ASSUME FreshTokens # {}
  PROVE  /\ NewToken \in Tokens /\ live[NewToken] = NoRow
         /\ \A s \in Slots : req[s].cred.tok # NewToken /\ NewToken \notin req[s].old
<1>1. NewToken \in FreshTokens
  BY DEF NewToken
<1>2. QED
  BY <1>1 DEF FreshTokens, Held

LEMMA NewDeviceFacts ==
  ASSUME FreshDevices # {}
  PROVE  /\ NewDevice \in Devices /\ NewDevice \notin rows
         /\ \A s \in Slots : req[s].cred.dev # NewDevice
<1>1. NewDevice \in FreshDevices
  BY DEF NewDevice
<1>2. QED
  BY <1>1 DEF FreshDevices, Held

\* A reply replaces its request, or nothing does.
LEMMA RepliedFacts ==
  ASSUME RequestsOK, NEW s \in Slots, NEW c \in Cred, NEW st \in {"ok", "refused", "error"},
         req' = Replied(s, st, c)
  PROVE  /\ RequestsOK'
         /\ \A q \in Slots \ {s} : req'[q] = req[q]
         /\ req'[s] = NoRequest \/ (s = slot /\ req'[s].stage = st)
         /\ ~req'[s].writes /\ req'[s].stage \notin {"sent", "read"}
<1> DEFINE r == [NoRequest EXCEPT !.stage = st, !.op = req[s].op, !.cred = c]
<1>1. r \in Request /\ r.stage = st /\ ~r.writes
  <2>1. req[s].op \in {"register", "heartbeat"}
    BY DEF RequestsOK, Request
  <2> HIDE DEF Cred
  <2>2. QED
    BY <2>1, Constants DEF NoRequest, Request
<1>2. req' = [req EXCEPT ![s] = IF s = slot THEN r ELSE NoRequest]
  BY DEF Replied
<1> HIDE DEF r
<1>3. ~NoRequest.writes /\ NoRequest.stage = "none"
  BY DEF NoRequest
<1>4. QED
  BY <1>1, <1>2, <1>3, Constants DEF RequestsOK

\* A writer that starts ends the solitude of the others of its device.
LEMMA WritingFacts ==
  ASSUME RequestsOK, NEW s \in Slots, NEW r \in Request, req' = Writing(s, r)
  PROVE  /\ RequestsOK'
         /\ req'[s] = [r EXCEPT !.alone = (Writers(r.cred.dev) = {})]
         /\ \A q \in Slots \ {s} :
              req'[q] = IF q \in Writers(r.cred.dev) THEN [req[q] EXCEPT !.alone = FALSE] ELSE req[q]
<1>1. [r EXCEPT !.alone = (Writers(r.cred.dev) = {})] \in Request
  BY DEF Request
<1>2. \A q \in Slots : [req[q] EXCEPT !.alone = FALSE] \in Request
  BY DEF RequestsOK, Request
<1>3. QED
  BY <1>1, <1>2 DEF Writing, RequestsOK

\* What RegisterRead and HeartbeatRead make of their request.
LEMMA ReadFacts ==
  ASSUME TypeOK, NEW s \in Slots
  PROVE  /\ \A d \in Existing :
              [req[s] EXCEPT !.stage = "read", !.writes = TRUE, !.cred = [dev |-> d, tok |-> NoToken],
                             !.old = IF d = NoDevice THEN {} ELSE Unrevoked(d)] \in Request
         /\ [req[s] EXCEPT !.stage = "read", !.writes = TRUE] \in Request
         /\ [req[s] EXCEPT !.stage = "read"] \in Request
<1>1. req[s] \in Request
  BY DEF TypeOK
<1>2. \A d \in Existing : [dev |-> d, tok |-> NoToken] \in Cred
  BY DEF Existing, TypeOK, Cred
<1>3. \A d : Unrevoked(d) \in SUBSET Tokens
  BY DEF Unrevoked
<1> HIDE DEF Cred, Unrevoked
<1>4. ASSUME NEW d \in Existing
      PROVE  [req[s] EXCEPT !.stage = "read", !.writes = TRUE, !.cred = [dev |-> d, tok |-> NoToken],
                             !.old = IF d = NoDevice THEN {} ELSE Unrevoked(d)] \in Request
  <2> DEFINE c == [dev |-> d, tok |-> NoToken]
             o == IF d = NoDevice THEN {} ELSE Unrevoked(d)
  <2>1. c \in Cred /\ o \in SUBSET Tokens
    BY <1>2, <1>3
  <2> HIDE DEF c, o
  <2>2. [req[s] EXCEPT !.stage = "read", !.writes = TRUE, !.cred = c, !.old = o] \in Request
    BY <1>1, <2>1 DEF Request
  <2>3. QED
    BY <2>2 DEF c, o
<1>5. QED
  BY <1>1, <1>4 DEF Request

\* A save that stops halfway leaves credentials or an empty file.
LEMMA HalfSavedFacts ==
  ASSUME saved \in Cred \union {Torn}, NEW c \in Cred
  PROVE  HalfSaved(c) \subseteq Cred \union {Torn}
<1>1. saved \in Cred => [saved EXCEPT !.tok = c.tok] \in Cred
  BY DEF Cred
<1> HIDE DEF Cred, Torn
<1>2. QED
  BY <1>1 DEF HalfSaved

LEMMA AtMostOneElement ==
  ASSUME NEW S, \A x, y \in S : x = y
  PROVE  Cardinality(S) <= 1
<1>1. CASE S = {}
  BY <1>1, FS_EmptySet
<1>2. ASSUME NEW x \in S
      PROVE  Cardinality(S) <= 1
  <2>1. S = {x}
    BY <1>2
  <2>2. QED
    BY <2>1, FS_Singleton
<1>3. QED
  BY <1>1, <1>2

-----------------------------------------------------------------------------
(* Types.                                                                  *)

LEMMA InitTypes == Init => TypeOK
<1> SUFFICES ASSUME Init PROVE TypeOK
  OBVIOUS
<1> USE AgentIdentityAssumption DEF AgentIdentityAssumption, Init
<1>1. ServerOK
  BY DEF ServerOK, NoRow
<1>2. RequestsOK
  BY Constants DEF RequestsOK
<1>3. WaitingOK
  BY DEF WaitingOK, NoRequest
<1>4. AgentOK
  BY Constants DEF AgentOK
<1>5. FlagsOK
  BY Zenon DEF FlagsOK
<1>6. QED
  BY <1>1, <1>2, <1>3, <1>4, <1>5, TypeParts

LEMMA ReissuedFacts ==
  ASSUME TypeOK, NEW old, NEW t \in Tokens, NEW d \in Devices
  PROVE  /\ Reissued(old, t, d) \in [Tokens -> [dev : Devices \union {NoDevice}, age : 0 .. Lifetime]]
         /\ \A u \in Tokens : Reissued(old, t, d)[u] \in {NoRow, live[u]}
                            \/ (u = t /\ Reissued(old, t, d)[u].dev = d)
<1> USE AgentIdentityAssumption DEF AgentIdentityAssumption
<1>1. NoRow \in [dev : Devices \union {NoDevice}, age : 0 .. Lifetime]
  BY DEF NoRow
<1>2. [dev |-> d, age |-> 0] \in [dev : Devices \union {NoDevice}, age : 0 .. Lifetime]
  OBVIOUS
<1>3. \A u \in Tokens : live[u] \in [dev : Devices \union {NoDevice}, age : 0 .. Lifetime]
  BY DEF TypeOK
<1> HIDE DEF NoRow
<1> DEFINE new == [dev |-> d, age |-> 0]
<1> HIDE DEF new
<1>4. /\ Reissued(old, t, d) = [u \in Tokens |-> Reissued(old, t, d)[u]]
      /\ \A u \in Tokens : Reissued(old, t, d)[u] \in {NoRow, live[u]}
                            \/ (u = t /\ Reissued(old, t, d)[u] = new)
  BY DEF Reissued, new
<1>5. Reissued(old, t, d) \in [Tokens -> [dev : Devices \union {NoDevice}, age : 0 .. Lifetime]]
  BY <1>1, <1>2, <1>3, <1>4 DEF new
<1>6. QED
  BY <1>4, <1>5 DEF new

LEMMA ServerStep ==
  ASSUME TypeOK, Next
  PROVE  ServerOK'
<1> USE AgentIdentityAssumption DEF AgentIdentityAssumption
<1>1. ServerOK
  BY TypeParts
<1>2. ASSUME UNCHANGED serverVars
      PROVE  ServerOK'
  BY <1>1, <1>2 DEF ServerOK, serverVars
<1>3. ASSUME NEW s \in Slots, RegisterNew(s)
      PROVE  ServerOK'
  <2>1. NewToken \in Tokens /\ NewDevice \in Devices
    BY <1>3, NewTokenFacts, NewDeviceFacts DEF RegisterNew
  <2>2. rows' = rows \union {NewDevice} /\ live' = Reissued({}, NewToken, NewDevice)
        /\ doubled' = doubled
    BY <1>3 DEF RegisterNew
  <2> HIDE DEF NoRow
  <2>3. \A t \in Tokens : live'[t] = NoRow \/ live'[t].dev \in rows'
    <3>1. \A t \in Tokens : live'[t] \in {NoRow, live[t]} \/ live'[t].dev = NewDevice
      BY <2>1, <2>2, ReissuedFacts
    <3>2. \A t \in Tokens : live[t] = NoRow \/ live[t].dev \in rows
      BY <1>1 DEF ServerOK
    <3>3. QED
      BY <2>2, <3>1, <3>2
  <2>4. live' \in [Tokens -> [dev : Devices \union {NoDevice}, age : 0 .. Lifetime]]
    BY <2>1, <2>2, ReissuedFacts
  <2>5. QED
    BY <1>1, <2>1, <2>2, <2>3, <2>4 DEF ServerOK
<1>4. ASSUME NEW s \in Slots, RegisterAgain(s)
      PROVE  ServerOK'
  <2> DEFINE d == req[s].cred.dev
  <2>1. NewToken \in Tokens /\ d \in rows /\ d \in Devices
    BY <1>1, <1>4, NewTokenFacts DEF RegisterAgain, ServerOK
  <2>2. /\ rows' = rows /\ live' = Reissued(req[s].old, NewToken, d)
        /\ doubled' = doubled \ {d} \/ doubled' = doubled \union {d}
    BY <1>4 DEF RegisterAgain
  <2> HIDE DEF d
  <2>3. QED
    BY <1>1, <2>1, <2>2, ReissuedFacts DEF ServerOK
<1>5. ASSUME NEW s \in Slots, HeartbeatCommit(s)
      PROVE  ServerOK'
  <2> DEFINE c == req[s].cred
  <2>1. CASE req[s].writes
    <3>1. NewToken \in Tokens /\ c.dev \in rows /\ c.dev \in Devices
      BY <1>1, <1>5, <2>1, NewTokenFacts DEF HeartbeatCommit, ServerOK
    <3>2. /\ rows' = rows /\ live' = Reissued({c.tok}, NewToken, c.dev)
          /\ doubled' = doubled \/ doubled' = doubled \union {c.dev}
      BY <1>5, <2>1 DEF HeartbeatCommit
    <3> HIDE DEF c
    <3>3. /\ live' \in [Tokens -> [dev : Devices \union {NoDevice}, age : 0 .. Lifetime]]
          /\ \A t \in Tokens : live'[t] \in {NoRow, live[t]} \/ live'[t].dev = c.dev
      BY <3>1, <3>2, ReissuedFacts
    <3>4. QED
      BY <1>1, <3>1, <3>2, <3>3 DEF ServerOK
  <2>2. CASE ~req[s].writes
    BY <1>2, <1>5, <2>2 DEF HeartbeatCommit, serverVars
  <2>3. QED
    BY <2>1, <2>2
<1>6. ASSUME NEW d \in Devices, DeleteDevice(d)
      PROVE  ServerOK'
  <2>1. NoRow \in [dev : Devices \union {NoDevice}, age : 0 .. Lifetime]
    BY DEF NoRow
  <2>2. /\ rows' = rows \ {d} /\ doubled' = doubled \ {d}
        /\ live' = [t \in Tokens |-> IF live[t].dev = d THEN NoRow ELSE live[t]]
    BY <1>6 DEF DeleteDevice, Unrevoked
  <2>3. QED
    BY <1>1, <2>1, <2>2 DEF ServerOK
<1>7. CASE Tick
  <2>1. \A t \in Tokens :
          live'[t] = IF live[t] # NoRow /\ live[t].age < Lifetime
                     THEN [live[t] EXCEPT !.age = @ + 1] ELSE live[t]
    BY <1>7 DEF Tick
  <2>2. ASSUME NEW t \in Tokens
        PROVE  /\ live'[t] \in [dev : Devices \union {NoDevice}, age : 0 .. Lifetime]
               /\ live'[t] = NoRow \/ live'[t].dev \in rows
    <3> USE DEF ServerOK
    <3>1. live[t] \in [dev : Devices \union {NoDevice}, age : 0 .. Lifetime]
      BY <1>1 DEF ServerOK
    <3>2. CASE live[t] # NoRow /\ live[t].age < Lifetime
      <4>1. live'[t] = [live[t] EXCEPT !.age = @ + 1] /\ live[t].dev \in rows
        BY <1>1, <2>1, <3>2
      <4>2. QED
        BY <3>1, <3>2, <4>1
    <3>3. CASE ~(live[t] # NoRow /\ live[t].age < Lifetime)
      BY <1>1, <2>1, <3>1, <3>3
    <3>4. QED
      BY <3>2, <3>3
  <2>3. live' = [t \in Tokens |-> live'[t]]
    BY <1>7 DEF Tick
  <2>4. UNCHANGED <<rows, doubled>>
    BY <1>7 DEF Tick
  <2>5. QED
    BY <1>1, <2>2, <2>3, <2>4 DEF ServerOK
<1>8. ASSUME NEW s \in Slots, Agent(s) \/ SaveFails(s)
      PROVE  UNCHANGED serverVars
  BY <1>8 DEF Agent, Start, Beat, Registered, Accepted, Refused, Failed, SaveFails
<1>9. ASSUME NEW s \in Slots, RegisterRead(s) \/ HeartbeatRead(s) \/ HeartbeatRefused(s) \/ CommitFails(s)
      PROVE  UNCHANGED serverVars
  BY <1>9 DEF RegisterRead, HeartbeatRead, HeartbeatRefused, CommitFails
<1>10. GiveUp \/ Crash => UNCHANGED serverVars
  BY DEF GiveUp, Crash
<1>11. QED
  BY <1>2, <1>3, <1>4, <1>5, <1>6, <1>7, <1>8, <1>9, <1>10 DEF Next, Serve

LEMMA AgentStep ==
  ASSUME TypeOK, Next
  PROVE  AgentOK'
<1> USE AgentIdentityAssumption DEF AgentIdentityAssumption
<1>1. AgentOK
  BY TypeParts
<1>2. \A s \in Slots : req[s].cred \in Cred
  BY DEF TypeOK, Request
<1>3. ASSUME NEW s \in Slots, Serve(s)
      PROVE  AgentOK'
  BY <1>1, <1>3 DEF AgentOK, agentVars, Serve, RegisterRead, RegisterNew, RegisterAgain, HeartbeatRead,
                    HeartbeatRefused, HeartbeatCommit, CommitFails
<1>4. ASSUME NEW s \in Slots, Accepted(s)
      PROVE  AgentOK'
  <2>1. [worker EXCEPT !.tok = req[s].cred.tok] \in Cred
    BY <1>1, <1>2 DEF AgentOK, Cred
  <2> HIDE DEF Cred
  <2>2. QED
    BY <1>1, <1>2, <1>4, <2>1 DEF Accepted, AgentOK
<1> HIDE DEF Cred
<1>5. ASSUME NEW s \in Slots,
             Start(s) \/ Beat(s) \/ Registered(s) \/ Refused(s) \/ Failed(s) \/ SaveFails(s)
      PROVE  AgentOK'
  <2>1. CASE SaveFails(s)
    <3>1. saved' \in Cred \union {Torn}
      BY <1>1, <1>2, <2>1, HalfSavedFacts DEF SaveFails, AgentOK
    <3>2. QED
      BY <1>1, <2>1, <3>1, Constants DEF SaveFails, AgentOK
  <2>2. CASE ~SaveFails(s)
    BY <1>1, <1>2, <1>5, <2>2, Constants DEF Start, Beat, Registered, Refused, Failed, Backoff, AgentOK
  <2>3. QED
    BY <2>1, <2>2
<1>6. GiveUp \/ Crash => AgentOK'
  <2>1. CASE GiveUp
    BY <1>1, <2>1, Constants DEF GiveUp, Backoff, AgentOK
  <2>2. CASE Crash
    <3>1. saved' \in Cred \union {Torn}
      BY <1>1, <1>2, <2>2, HalfSavedFacts DEF Crash, Saving, Answered, AgentOK, TypeOK
    <3>2. QED
      BY <1>1, <2>2, <3>1, Constants DEF Crash, AgentOK
  <2>3. QED
    BY <2>1, <2>2
<1>7. Tick => AgentOK'
  BY <1>1 DEF Tick, agentVars, AgentOK
<1>8. ASSUME NEW d \in Devices, DeleteDevice(d)
      PROVE  AgentOK'
  BY <1>1, <1>8 DEF DeleteDevice, agentVars, AgentOK
<1>9. QED
  BY <1>3, <1>4, <1>5, <1>6, <1>7, <1>8 DEF Next, Agent

LEMMA FlagsStep ==
  ASSUME FlagsOK, Next
  PROVE  FlagsOK'
<1>1. twins' \in BOOLEAN
  <2>1. twins' = twins \/ twins' \in BOOLEAN
    BY DEF Next, Serve, Agent, serverVars, RegisterRead, RegisterNew, RegisterAgain, HeartbeatRead,
           HeartbeatRefused, HeartbeatCommit, CommitFails, Start, Beat, Registered, Accepted,
           Refused, Failed, SaveFails, DeleteDevice, GiveUp, Crash, Tick
  <2>2. QED
    BY <2>1, Zenon DEF FlagsOK
<1>2. heard' \in BOOLEAN
  <2>1. heard' = heard \/ heard' \in BOOLEAN
    BY DEF Next, Serve, Agent, RegisterRead, RegisterNew, RegisterAgain, HeartbeatRead,
           HeartbeatRefused, HeartbeatCommit, CommitFails, Start, Beat, Registered, Accepted,
           Refused, Failed, SaveFails, DeleteDevice, GiveUp, Crash, Tick
  <2>2. QED
    BY <2>1, Zenon DEF FlagsOK
<1>3. QED
  BY <1>1, <1>2 DEF FlagsOK

\* Requests and who waits for them.
LEMMA RequestsStep ==
  ASSUME TypeOK, Next
  PROVE  RequestsOK' /\ WaitingOK'
<1> USE AgentIdentityAssumption DEF AgentIdentityAssumption
<1>1. RequestsOK /\ WaitingOK
  BY TypeParts
<1>2. 0 \notin Slots
  BY DEF Slots
<1>3. NoCred \in Cred /\ NoRequest \in Request /\ NoRequest.stage = "none"
  BY Constants DEF NoRequest
<1>4. \A d \in Devices, t \in Tokens : [dev |-> d, tok |-> t] \in Cred
  BY DEF Cred
<1> HIDE DEF Cred, Request
\* Handlers move a request on, or reply to it; nobody waits for another one.
<1>5. ASSUME NEW s \in Slots, NEW c \in Cred, NEW st \in {"ok", "refused", "error"},
             req' = Replied(s, st, c), UNCHANGED agentVars
      PROVE  RequestsOK' /\ WaitingOK'
  BY <1>1, <1>3, <1>5, RepliedFacts DEF agentVars, WaitingOK
<1>6. ASSUME NEW s \in Slots, NEW r \in Request, r.stage = "read",
             req' = Writing(s, r), UNCHANGED agentVars
      PROVE  RequestsOK' /\ WaitingOK'
  <2>1. \A q \in Slots : req'[q].stage \in {req[q].stage, "read"}
    <3>1. [r EXCEPT !.alone = (Writers(r.cred.dev) = {})].stage = "read"
      BY <1>6 DEF Request
    <3>2. \A q \in Slots : [req[q] EXCEPT !.alone = FALSE].stage = req[q].stage
      BY <1>1 DEF RequestsOK, Request
    <3>3. req'[s].stage = "read"
      BY <1>1, <1>6, <3>1, WritingFacts
    <3>4. ASSUME NEW q \in Slots \ {s}
          PROVE  req'[q].stage = req[q].stage
      <4>1. req'[q] = IF q \in Writers(r.cred.dev) THEN [req[q] EXCEPT !.alone = FALSE] ELSE req[q]
        BY <1>6 DEF Writing
      <4>2. QED
        BY <3>2, <4>1
    <3>5. QED
      BY <3>3, <3>4
  <2>2. RequestsOK'
    BY <1>1, <1>6, WritingFacts
  <2>3. QED
    BY <1>1, <1>6, <2>1, <2>2 DEF agentVars, WaitingOK
<1>7. ASSUME NEW s \in Slots, RegisterRead(s)
      PROVE  RequestsOK' /\ WaitingOK'
  <2>1. PICK d \in Existing :
          req' = Writing(s, [req[s] EXCEPT !.stage = "read", !.writes = TRUE,
                               !.cred = [dev |-> d, tok |-> NoToken],
                               !.old = IF d = NoDevice THEN {} ELSE Unrevoked(d)])
    BY <1>7 DEF RegisterRead
  <2> DEFINE r == [req[s] EXCEPT !.stage = "read", !.writes = TRUE,
                     !.cred = [dev |-> d, tok |-> NoToken],
                     !.old = IF d = NoDevice THEN {} ELSE Unrevoked(d)]
  <2>2. r \in Request
    BY ReadFacts
  <2>3. r.stage = "read"
    BY <1>1 DEF RequestsOK, Request
  <2>4. UNCHANGED agentVars /\ req' = Writing(s, r)
    BY <1>7, <2>1 DEF RegisterRead
  <2> HIDE DEF r
  <2>5. QED
    BY <1>6, <2>2, <2>3, <2>4
<1>8. ASSUME NEW s \in Slots, HeartbeatRead(s)
      PROVE  RequestsOK' /\ WaitingOK'
  <2>1. CASE RotateDue(req[s].cred.tok)
    <3> DEFINE r == [req[s] EXCEPT !.stage = "read", !.writes = TRUE]
    <3>1. r \in Request
      BY ReadFacts
    <3>2. r.stage = "read"
      BY <1>1 DEF RequestsOK, Request
    <3>3. UNCHANGED agentVars /\ req' = Writing(s, r)
      BY <1>8, <2>1 DEF HeartbeatRead
    <3> HIDE DEF r
    <3>4. QED
      BY <1>6, <3>1, <3>2, <3>3
  <2>2. CASE ~RotateDue(req[s].cred.tok)
    <3>1. req' = [req EXCEPT ![s] = [req[s] EXCEPT !.stage = "read"]] /\ UNCHANGED agentVars
      BY <1>8, <2>2 DEF HeartbeatRead
    <3>2. [req[s] EXCEPT !.stage = "read"] \in Request
      BY ReadFacts
    <3>3. [req[s] EXCEPT !.stage = "read"].stage = "read"
      BY <1>1 DEF RequestsOK, Request
    <3>4. QED
      BY <1>1, <3>1, <3>2, <3>3 DEF RequestsOK, WaitingOK, agentVars
  <2>3. QED
    BY <2>1, <2>2
<1>9. ASSUME NEW s \in Slots,
             RegisterNew(s) \/ RegisterAgain(s) \/ HeartbeatRefused(s) \/ HeartbeatCommit(s) \/ CommitFails(s)
      PROVE  RequestsOK' /\ WaitingOK'
  <2>1. PICK c \in Cred, st \in {"ok", "refused", "error"} : req' = Replied(s, st, c)
    <3>1. CASE RegisterNew(s)
      BY <1>4, <3>1, NewTokenFacts, NewDeviceFacts DEF RegisterNew
    <3>2. CASE RegisterAgain(s)
      <4>1. req[s].cred.dev \in Devices
        BY <3>2, TypeParts DEF RegisterAgain, ServerOK
      <4>2. QED
        BY <1>4, <3>2, <4>1, NewTokenFacts DEF RegisterAgain
    <3>3. CASE HeartbeatCommit(s)
      <4>1. req[s].cred.dev \in Devices
        BY <3>3, TypeParts DEF HeartbeatCommit, ServerOK
      <4>2. QED
        BY <1>3, <1>4, <3>3, <4>1, NewTokenFacts DEF HeartbeatCommit
    <3>4. CASE HeartbeatRefused(s) \/ CommitFails(s)
      BY <1>3, <3>4 DEF HeartbeatRefused, CommitFails
    <3>5. QED
      BY <1>9, <3>1, <3>2, <3>3, <3>4
  <2>2. UNCHANGED agentVars
    BY <1>9 DEF RegisterNew, RegisterAgain, HeartbeatRefused, HeartbeatCommit, CommitFails
  <2>3. QED
    BY <1>5, <2>1, <2>2
\* The agent sends in a free slot when it waits for nothing.
<1>10. ASSUME NEW s \in Slots, NEW op \in {"register", "heartbeat"}, NEW c \in Cred,
              req' = [req EXCEPT ![s] = Send(s, op, c)], slot \in {0, s}, slot' = s,
              apc' \in {"first", "beat", "again"}
       PROVE  RequestsOK' /\ WaitingOK'
  <2>1. Send(s, op, c) \in Request
    BY Constants
  <2>2. QED
    BY <1>1, <1>2, <1>10, <2>1 DEF RequestsOK, WaitingOK
<1>11. ASSUME NEW s \in Slots, slot = s, Free(s), apc' \in {"down", "loop"}
       PROVE  RequestsOK' /\ WaitingOK'
  BY <1>1, <1>2, <1>3, <1>11 DEF Free, RequestsOK, WaitingOK
<1>12. ASSUME NEW s \in Slots, Start(s)
       PROVE  RequestsOK' /\ WaitingOK'
  <2>1. CASE saved = NoCred
    <3>1. /\ req' = [req EXCEPT ![s] = Send(s, "register", NoCred)]
          /\ slot = 0 /\ slot' = s /\ apc' = "first"
      BY <1>1, <1>12, <2>1 DEF Start, WaitingOK
    <3>2. QED
      BY <1>3, <1>10, <3>1
  <2>2. CASE saved # NoCred
    BY <1>1, <1>12, <2>2 DEF Start, RequestsOK, WaitingOK
  <2>3. QED
    BY <2>1, <2>2
<1>13. ASSUME NEW s \in Slots, Beat(s)
       PROVE  RequestsOK' /\ WaitingOK'
  <2>1. mem \in Cred
    BY DEF TypeOK
  <2>2. /\ req' = [req EXCEPT ![s] = Send(s, "heartbeat", mem)]
        /\ slot = 0 /\ slot' = s /\ apc' = "beat"
    BY <1>1, <1>13 DEF Beat, WaitingOK
  <2>3. QED
    BY <1>10, <2>1, <2>2
<1>14. ASSUME NEW s \in Slots, Refused(s)
       PROVE  RequestsOK' /\ WaitingOK'
  <2>1. /\ req' = [req EXCEPT ![s] = Send(s, "register", NoCred)]
        /\ slot = s /\ slot' = s /\ apc' = "again"
    BY <1>14 DEF Refused, Answered
  <2>2. QED
    BY <1>3, <1>10, <2>1
<1>15. ASSUME NEW s \in Slots, Registered(s) \/ Accepted(s) \/ Failed(s) \/ SaveFails(s)
       PROVE  RequestsOK' /\ WaitingOK'
  <2>1. slot = s /\ Free(s) /\ apc' \in {"down", "loop"}
    BY <1>15 DEF Registered, Accepted, Failed, SaveFails, Saving, Answered, Backoff
  <2>2. QED
    BY <1>11, <2>1
<1>16. CASE GiveUp
  <2>1. apc' \in {"down", "loop"} /\ slot' = 0 /\ slot \in Slots
    BY <1>1, <1>16 DEF GiveUp, Backoff, WaitingOK
  <2>2. req' = IF req[slot].stage \in {"sent", "read"} THEN req ELSE [req EXCEPT ![slot] = NoRequest]
    BY <1>16 DEF GiveUp
  <2>3. QED
    BY <1>1, <1>3, <2>1, <2>2 DEF RequestsOK, WaitingOK
<1>17. CASE Crash
  <2>1. apc' = "down" /\ slot' = 0
    BY <1>17 DEF Crash
  <2>2. req' = IF slot # 0 /\ req[slot].stage \notin {"sent", "read"}
               THEN [req EXCEPT ![slot] = NoRequest] ELSE req
    BY <1>17 DEF Crash
  <2>3. QED
    BY <1>1, <1>3, <2>1, <2>2 DEF RequestsOK, WaitingOK
<1>18. ASSUME Tick \/ \E d \in Devices : DeleteDevice(d)
       PROVE  RequestsOK' /\ WaitingOK'
  BY <1>1, <1>18 DEF Tick, DeleteDevice, agentVars, RequestsOK, WaitingOK
<1>19. QED
  BY <1>7, <1>8, <1>9, <1>12, <1>13, <1>14, <1>15, <1>16, <1>17, <1>18 DEF Next, Serve, Agent

LEMMA TypeStep ==
  ASSUME TypeOK, [Next]_vars
  PROVE  TypeOK'
<1>1. CASE Next
  <2>1. ServerOK' /\ RequestsOK' /\ WaitingOK' /\ AgentOK' /\ FlagsOK'
    BY <1>1, TypeParts, ServerStep, RequestsStep, AgentStep, FlagsStep
  <2>2. QED
    BY <2>1 DEF TypeOK, ServerOK, RequestsOK, WaitingOK, AgentOK, FlagsOK
<1>2. CASE UNCHANGED vars
  BY <1>2 DEF vars, TypeOK, Unrevoked
<1>3. QED
  BY <1>1, <1>2

\* Types: rows and copies name existing identifiers, and the agent waits for
\* the one request it has sent.
THEOREM TypeCorrect == Spec => []TypeOK
BY InitTypes, TypeStep, PTL DEF Spec

-----------------------------------------------------------------------------
(* One token and one device.                                               *)

IsWriter(s) == req[s].stage = "read" /\ req[s].writes

\* The tokens a writer revokes.
Touched(s) == IF req[s].op = "register" THEN req[s].old ELSE {req[s].cred.tok}

\* Registrations write, requests nobody has read do not.
FlagInv ==
  \A s \in Slots : /\ req[s].stage = "read" /\ req[s].op = "register" => req[s].writes
                   /\ req[s].stage = "sent" => ~req[s].writes

\* A lone writer is the only one of its device.
SoloInv ==
  \A s, q \in Slots : s # q /\ IsWriter(s) /\ IsWriter(q) /\ req[s].cred.dev = req[q].cred.dev
                      => ~req[s].alone

\* A writer revokes no token of another device.
LockInv ==
  \A s \in Slots : IsWriter(s) =>
    \A t \in Touched(s) : t \in Tokens => live[t].dev \in {NoDevice, req[s].cred.dev}

\* What a lone writer has read is still so when it commits.
SeesInv ==
  \A s \in Slots : IsWriter(s) /\ req[s].alone =>
    /\ req[s].cred.dev = NoDevice => rows = {}
    /\ req[s].cred.dev \in rows /\ req[s].op = "register" => Unrevoked(req[s].cred.dev) \subseteq req[s].old
    /\ req[s].cred.dev \in rows /\ req[s].op = "heartbeat" => req[s].cred.tok \in Unrevoked(req[s].cred.dev)

SingleInv == \A d \in rows \ doubled : \A t, u \in Unrevoked(d) : t = u
DeviceInv == ~twins => \A d, e \in rows : d = e

IInv == TypeOK /\ FlagInv /\ SoloInv /\ LockInv /\ SeesInv /\ SingleInv /\ DeviceInv

\* No request becomes a writer.
Quiet ==
  \A q \in Slots : \/ req'[q] = req[q]
                   \/ ~req'[q].writes /\ ~(req'[q].stage = "read" /\ req'[q].op = "register")

LEMMA QuietFacts ==
  ASSUME FlagInv, SoloInv, Quiet
  PROVE  /\ FlagInv' /\ SoloInv'
         /\ \A q \in Slots : IsWriter(q)' => IsWriter(q) /\ req'[q] = req[q]
<1>1. \A q \in Slots : IsWriter(q)' => IsWriter(q) /\ req'[q] = req[q]
  BY DEF Quiet, IsWriter
<1>2. FlagInv'
  BY DEF Quiet, FlagInv
<1>3. SoloInv'
  BY <1>1 DEF SoloInv
<1>4. QED
  BY <1>1, <1>2, <1>3

\* A step that changes no request and no row, or only replies, keeps what
\* writers hold and see.
LEMMA QuietServerFacts ==
  ASSUME FlagInv, SoloInv, LockInv, SeesInv, Quiet, rows' = rows,
         \A t \in Tokens : live'[t].dev = live[t].dev
  PROVE  FlagInv' /\ SoloInv' /\ LockInv' /\ SeesInv'
<1>1. \A d : Unrevoked(d)' = Unrevoked(d)
  BY DEF Unrevoked
<1>2. \A q \in Slots : IsWriter(q)' => IsWriter(q) /\ req'[q] = req[q]
  BY QuietFacts
<1>3. LockInv'
  BY <1>2 DEF LockInv, Touched
<1>4. SeesInv'
  BY <1>1, <1>2 DEF SeesInv
<1>5. QED
  BY <1>3, <1>4, QuietFacts

\* A request that starts to write.
LEMMA WritingKeeps ==
  ASSUME TypeOK, FlagInv, SoloInv, LockInv, SeesInv, NEW s \in Slots, NEW r \in Request,
         r.stage = "read", r.writes, req' = Writing(s, r), UNCHANGED serverVars,
         \A t \in (IF r.op = "register" THEN r.old ELSE {r.cred.tok}) :
            t \in Tokens => live[t].dev \in {NoDevice, r.cred.dev},
         r.cred.dev = NoDevice => rows = {},
         r.cred.dev \in rows /\ r.op = "register" => Unrevoked(r.cred.dev) \subseteq r.old,
         r.cred.dev \in rows /\ r.op = "heartbeat" => r.cred.tok \in Unrevoked(r.cred.dev)
  PROVE  FlagInv' /\ SoloInv' /\ LockInv' /\ SeesInv'
<1> DEFINE e == r.cred.dev
<1>1. /\ req'[s].stage = "read" /\ req'[s].writes /\ req'[s].op = r.op
      /\ req'[s].cred = r.cred /\ req'[s].old = r.old
      /\ req'[s].alone => Writers(e) = {}
  <2>1. req'[s] = [r EXCEPT !.alone = (Writers(e) = {})]
    BY DEF Writing
  <2>2. QED
    BY <2>1 DEF Request
<1>2. ASSUME NEW q \in Slots \ {s}
      PROVE  /\ req'[q].stage = req[q].stage /\ req'[q].writes = req[q].writes
             /\ req'[q].op = req[q].op /\ req'[q].cred = req[q].cred /\ req'[q].old = req[q].old
             /\ req'[q].alone => req[q].alone /\ q \notin Writers(e)
  <2>1. req'[q] = IF q \in Writers(e) THEN [req[q] EXCEPT !.alone = FALSE] ELSE req[q]
    BY DEF Writing
  <2>2. req[q] \in Request
    BY DEF TypeOK
  <2>3. CASE q \in Writers(e)
    BY <2>1, <2>2, <2>3 DEF Request
  <2>4. CASE q \notin Writers(e)
    BY <2>1, <2>4
  <2>5. QED
    BY <2>3, <2>4
<1>3. rows' = rows /\ live' = live
  BY DEF serverVars
<1>4. \A d : Unrevoked(d)' = Unrevoked(d)
  BY <1>3 DEF Unrevoked
<1> HIDE DEF Writing, Request
<1>5. FlagInv'
  BY <1>1, <1>2 DEF FlagInv
<1>6. ASSUME NEW q \in Slots \ {s}, IsWriter(q)', req'[q].cred.dev = e
      PROVE  q \in Writers(e)
  BY <1>2, <1>6 DEF IsWriter, Writers
<1>7. SoloInv'
  <2> SUFFICES ASSUME NEW p \in Slots, NEW q \in Slots, p # q, IsWriter(p)', IsWriter(q)',
                      req'[p].cred.dev = req'[q].cred.dev, req'[p].alone
               PROVE  FALSE
    BY DEF SoloInv
  <2>1. CASE p = s
    <3>1. q \in Writers(e)
      BY <1>1, <1>6, <2>1
    <3>2. QED
      BY <1>1, <2>1, <3>1
  <2>2. CASE q = s
    BY <1>1, <1>2, <1>6, <2>2
  <2>3. CASE p # s /\ q # s
    BY <1>2, <2>3 DEF SoloInv, IsWriter
  <2>4. QED
    BY <2>1, <2>2, <2>3
<1>8. LockInv'
  <2> SUFFICES ASSUME NEW q \in Slots, IsWriter(q)', NEW t \in Touched(q)', t \in Tokens
               PROVE  live[t].dev \in {NoDevice, req'[q].cred.dev}
    BY <1>3 DEF LockInv
  <2>1. CASE q = s
    BY <1>1, <2>1 DEF Touched
  <2>2. CASE q # s
    BY <1>2, <2>2 DEF LockInv, IsWriter, Touched
  <2>3. QED
    BY <2>1, <2>2
<1>9. SeesInv'
  <2> SUFFICES ASSUME NEW q \in Slots, IsWriter(q)', req'[q].alone
               PROVE  LET d == req'[q].cred.dev IN
                      /\ d = NoDevice => rows = {}
                      /\ d \in rows /\ req'[q].op = "register" => Unrevoked(d) \subseteq req'[q].old
                      /\ d \in rows /\ req'[q].op = "heartbeat" => req'[q].cred.tok \in Unrevoked(d)
    BY <1>3, <1>4 DEF SeesInv
  <2>1. CASE q = s
    BY <1>1, <2>1
  <2>2. CASE q # s
    BY <1>2, <2>2 DEF SeesInv, IsWriter
  <2>3. QED
    BY <2>1, <2>2
<1>10. QED
  BY <1>5, <1>7, <1>8, <1>9

\* Issuing a token changes the tokens of its device only.
LEMMA IssueFacts ==
  ASSUME TypeOK, NEW old, NEW d \in Devices, FreshTokens # {}, live' = Reissued(old, NewToken, d),
         \A t \in old : t \in Tokens => live[t].dev \in {NoDevice, d}
  PROVE  /\ NewToken \in Tokens
         /\ Unrevoked(d)' = (Unrevoked(d) \ old) \union {NewToken}
         /\ \A e \in Devices \ {d} : Unrevoked(e)' = Unrevoked(e)
         /\ \A t \in Tokens \ {NewToken} : live'[t].dev \in {NoDevice, live[t].dev}
<1> USE AgentIdentityAssumption DEF AgentIdentityAssumption
<1>1. NewToken \in Tokens /\ live[NewToken].dev = NoDevice
  BY NewTokenFacts DEF NoRow
<1>2. \A t \in Tokens : live'[t].dev = IF t = NewToken THEN d
                                     ELSE IF t \in old THEN NoDevice ELSE live[t].dev
  BY DEF Reissued, NoRow
<1>3. Unrevoked(d)' = (Unrevoked(d) \ old) \union {NewToken}
  BY <1>1, <1>2 DEF Unrevoked
<1>4. ASSUME NEW e \in Devices \ {d}
      PROVE  Unrevoked(e)' = Unrevoked(e)
  BY <1>1, <1>2 DEF Unrevoked
<1>5. QED
  BY <1>1, <1>2, <1>3, <1>4

\* The other writers of the device that a writer commits to are not alone.
LEMMA CommitKeeps ==
  ASSUME TypeOK, FlagInv, SoloInv, LockInv, SeesInv, NEW s \in Slots, IsWriter(s), Quiet, ~req'[s].writes,
         NEW d \in Devices, NEW old \in SUBSET Touched(s), FreshTokens # {},
         live' = Reissued(old, NewToken, d),
         (req[s].cred.dev = d /\ rows' = rows)
         \/ (req[s].cred.dev = NoDevice /\ old = {} /\ rows' = rows \union {d}
             /\ \A q \in Slots : req[q].cred.dev # d)
  PROVE  FlagInv' /\ SoloInv' /\ LockInv' /\ SeesInv'
<1> USE AgentIdentityAssumption DEF AgentIdentityAssumption
<1>1. \A q \in Slots : IsWriter(q)' => IsWriter(q) /\ req'[q] = req[q] /\ q # s
  BY QuietFacts DEF IsWriter
<1>2. \A t \in old : t \in Tokens => live[t].dev \in {NoDevice, d}
  BY DEF LockInv
<1>3. /\ NewToken \in Tokens
      /\ \A e \in Devices \ {d} : Unrevoked(e)' = Unrevoked(e)
      /\ \A t \in Tokens \ {NewToken} : live'[t].dev \in {NoDevice, live[t].dev}
  BY <1>2, IssueFacts
<1>4. LockInv'
  <2> SUFFICES ASSUME NEW q \in Slots, IsWriter(q)', NEW t \in Touched(q)', t \in Tokens
               PROVE  live'[t].dev \in {NoDevice, req'[q].cred.dev}
    BY DEF LockInv
  <2>1. t \in Touched(q) /\ IsWriter(q) /\ req'[q] = req[q]
    BY <1>1 DEF Touched
  <2>2. live[t].dev \in {NoDevice, req[q].cred.dev}
    BY <2>1 DEF LockInv
  <2>3. t # NewToken
    BY <2>1, NewTokenFacts DEF Touched
  <2>4. QED
    BY <1>3, <2>1, <2>2, <2>3
<1>5. \A t \in Tokens, e \in Devices \ {d} : live'[t].dev = e <=> live[t].dev = e
  BY <1>3 DEF Unrevoked
<1>6. SeesInv'
  <2> SUFFICES ASSUME NEW q \in Slots, IsWriter(q)', req'[q].alone
               PROVE  /\ req'[q].cred.dev = NoDevice => rows' = {}
                      /\ req'[q].cred.dev \in rows' /\ req'[q].op = "register"
                         => \A t \in Tokens : live'[t].dev = req'[q].cred.dev => t \in req'[q].old
                      /\ req'[q].cred.dev \in rows' /\ req'[q].op = "heartbeat"
                         => req'[q].cred.tok \in Tokens /\ live'[req'[q].cred.tok].dev = req'[q].cred.dev
    BY DEF SeesInv, Unrevoked
  <2> DEFINE e == req[q].cred.dev
  <2>1. IsWriter(q) /\ req'[q] = req[q] /\ q # s
    BY <1>1
  <2>2. req[s].cred.dev # e /\ e # d
    BY <2>1 DEF SoloInv
  <2>3. e = NoDevice => rows' = {}
    BY <2>1, <2>2 DEF SeesInv
  <2>4. e \in rows' => e \in rows /\ e \in Devices \ {d}
    BY <2>2 DEF TypeOK
  <2>5. e \in rows /\ req[q].op = "register" => \A t \in Tokens : live[t].dev = e => t \in req[q].old
    BY <2>1 DEF SeesInv, Unrevoked
  <2>6. e \in rows /\ req[q].op = "heartbeat" => req[q].cred.tok \in Tokens /\ live[req[q].cred.tok].dev = e
    BY <2>1 DEF SeesInv, Unrevoked
  <2> HIDE DEF e
  <2>7. req'[q].cred.dev = e
    BY <2>1 DEF e
  <2>8. QED
    BY <1>5, <2>1, <2>3, <2>4, <2>5, <2>6, <2>7
<1>7. QED
  BY <1>4, <1>6, QuietFacts

\* Agents and given-up requests: no writer, no row.
LEMMA AgentQuiet ==
  ASSUME TypeOK, NEW s \in Slots, Agent(s) \/ SaveFails(s) \/ GiveUp \/ Crash
  PROVE  Quiet /\ UNCHANGED serverVars
<1>1. ~NoRequest.writes /\ NoRequest.stage = "none"
  BY DEF NoRequest
<1>2. \A op, c : ~Send(s, op, c).writes /\ Send(s, op, c).stage = "sent"
  BY DEF Send, NoRequest
<1>3. req \in [Slots -> Request]
  BY DEF TypeOK
<1> HIDE DEF NoRequest, Send, Request
<1>4. UNCHANGED serverVars
  BY DEF Agent, Start, Beat, Registered, Accepted, Refused, Failed, SaveFails, GiveUp, Crash
<1>5. CASE Start(s)
  BY <1>2, <1>3, <1>5 DEF Start, Quiet
<1>6. CASE Beat(s) \/ Refused(s)
  BY <1>2, <1>3, <1>6 DEF Beat, Refused, Quiet
<1>7. CASE Registered(s) \/ Accepted(s) \/ Failed(s) \/ SaveFails(s)
  <2>1. req' = [req EXCEPT ![s] = NoRequest]
    BY <1>7 DEF Registered, Accepted, Failed, SaveFails, Free
  <2>2. QED
    BY <1>1, <1>3, <1>4, <2>1 DEF Quiet
<1>8. CASE GiveUp \/ Crash
  <2>1. req' = req \/ req' = [req EXCEPT ![slot] = NoRequest]
    BY <1>8 DEF GiveUp, Crash
  <2>2. QED
    BY <1>1, <1>3, <1>4, <2>1 DEF Quiet
<1>9. QED
  BY <1>4, <1>5, <1>6, <1>7, <1>8 DEF Agent

LEMMA RepliedQuiet ==
  ASSUME TypeOK, NEW s \in Slots, NEW c \in Cred, NEW st \in {"ok", "refused", "error"},
         req' = Replied(s, st, c)
  PROVE  Quiet /\ ~req'[s].writes
BY RepliedFacts, TypeParts DEF Quiet

LEMMA WriterStep ==
  ASSUME TypeOK, FlagInv, SoloInv, LockInv, SeesInv, Next
  PROVE  FlagInv' /\ SoloInv' /\ LockInv' /\ SeesInv'
<1> DEFINE Goal == FlagInv' /\ SoloInv' /\ LockInv' /\ SeesInv'
<1> USE AgentIdentityAssumption DEF AgentIdentityAssumption
<1>1. \A s \in Slots : req[s] \in Request
  BY DEF TypeOK
<1>2. NoDevice \notin rows /\ rows \subseteq Devices
  BY DEF TypeOK
<1>3. NoCred \in Cred /\ \A d \in Devices, t \in Tokens : [dev |-> d, tok |-> t] \in Cred
  BY Constants DEF Cred
<1>4. ASSUME NEW s \in Slots, RegisterRead(s)
      PROVE  Goal
  <2>1. PICK d \in Existing :
          req' = Writing(s, [req[s] EXCEPT !.stage = "read", !.writes = TRUE,
                               !.cred = [dev |-> d, tok |-> NoToken],
                               !.old = IF d = NoDevice THEN {} ELSE Unrevoked(d)])
    BY <1>4 DEF RegisterRead
  <2> DEFINE r == [req[s] EXCEPT !.stage = "read", !.writes = TRUE,
                     !.cred = [dev |-> d, tok |-> NoToken],
                     !.old = IF d = NoDevice THEN {} ELSE Unrevoked(d)]
  <2>2. r \in Request
    BY ReadFacts
  <2>3. /\ r.stage = "read" /\ r.writes /\ r.op = "register" /\ r.cred.dev = d
        /\ r.old = IF d = NoDevice THEN {} ELSE Unrevoked(d)
    BY <1>1, <1>4 DEF RegisterRead, Request
  <2>4. UNCHANGED serverVars /\ req' = Writing(s, r)
    BY <1>4, <2>1 DEF RegisterRead
  <2> HIDE DEF r
  <2>5. d = NoDevice => rows = {}
    BY <1>2 DEF Existing
  <2>6. \A t \in r.old : t \in Tokens => live[t].dev \in {NoDevice, d}
    BY <2>3 DEF Unrevoked
  <2>7. d \in rows => Unrevoked(d) \subseteq r.old
    BY <1>2, <2>3
  <2>8. QED
    BY <2>2, <2>3, <2>4, <2>5, <2>6, <2>7, WritingKeeps
<1>5. ASSUME NEW s \in Slots, HeartbeatRead(s)
      PROVE  Goal
  <2>1. CASE RotateDue(req[s].cred.tok)
    <3> DEFINE r == [req[s] EXCEPT !.stage = "read", !.writes = TRUE]
    <3>1. r \in Request
      BY ReadFacts
    <3>2. r.stage = "read" /\ r.writes /\ r.op = "heartbeat" /\ r.cred = req[s].cred
      BY <1>1, <1>5 DEF HeartbeatRead, Request
    <3>3. UNCHANGED serverVars /\ req' = Writing(s, r)
      BY <1>5, <2>1 DEF HeartbeatRead
    <3> HIDE DEF r
    <3>4. r.cred.dev \in rows /\ r.cred.tok \in Tokens /\ live[r.cred.tok].dev = r.cred.dev
      BY <1>5, <3>2 DEF HeartbeatRead, Valid
    <3>5. r.cred.tok \in Unrevoked(r.cred.dev)
      BY <3>4 DEF Unrevoked
    <3>6. QED
      BY <1>2, <3>1, <3>2, <3>3, <3>4, <3>5, WritingKeeps
  <2>2. CASE ~RotateDue(req[s].cred.tok)
    <3>1. req' = [req EXCEPT ![s] = [req[s] EXCEPT !.stage = "read"]] /\ UNCHANGED serverVars
      BY <1>5, <2>2 DEF HeartbeatRead
    <3>2. ~req[s].writes /\ req[s].op = "heartbeat"
      BY <1>5 DEF HeartbeatRead, FlagInv
    <3>3. Quiet
      BY <1>1, <3>1, <3>2 DEF Quiet, TypeOK, Request
    <3>4. QED
      BY <3>1, <3>3, QuietServerFacts DEF serverVars
  <2>3. QED
    BY <2>1, <2>2
<1>6. ASSUME NEW s \in Slots, RegisterNew(s)
      PROVE  Goal
  <2>1. IsWriter(s) /\ req[s].cred.dev = NoDevice /\ FreshTokens # {} /\ FreshDevices # {}
    BY <1>6 DEF RegisterNew, FlagInv, IsWriter
  <2>2. /\ rows' = rows \union {NewDevice} /\ live' = Reissued({}, NewToken, NewDevice)
        /\ req' = Replied(s, "ok", [dev |-> NewDevice, tok |-> NewToken])
    BY <1>6 DEF RegisterNew
  <2>3. NewDevice \in Devices /\ NewToken \in Tokens /\ \A q \in Slots : req[q].cred.dev # NewDevice
    BY <2>1, NewDeviceFacts, NewTokenFacts
  <2>4. Quiet /\ ~req'[s].writes
    BY <1>3, <2>2, <2>3, RepliedQuiet
  <2>5. {} \in SUBSET Touched(s)
    OBVIOUS
  <2>6. QED
    BY <2>1, <2>2, <2>3, <2>4, <2>5, CommitKeeps
<1>7. ASSUME NEW s \in Slots, RegisterAgain(s)
      PROVE  Goal
  <2> DEFINE d == req[s].cred.dev
             old == req[s].old
  <2>1. IsWriter(s) /\ d \in Devices /\ FreshTokens # {} /\ old \in SUBSET Touched(s)
    BY <1>2, <1>7 DEF RegisterAgain, FlagInv, IsWriter, Touched
  <2>2. /\ rows' = rows /\ live' = Reissued(old, NewToken, d)
        /\ req' = Replied(s, "ok", [dev |-> d, tok |-> NewToken])
    BY <1>7 DEF RegisterAgain
  <2>3. Quiet /\ ~req'[s].writes
    BY <1>3, <2>1, <2>2, NewTokenFacts, RepliedQuiet
  <2>4. d = req[s].cred.dev
    OBVIOUS
  <2> HIDE DEF d, old
  <2>5. QED
    BY <2>1, <2>2, <2>3, <2>4, CommitKeeps
<1>8. ASSUME NEW s \in Slots, HeartbeatCommit(s)
      PROVE  Goal
  <2> DEFINE d == req[s].cred.dev
             old == {req[s].cred.tok}
  <2>1. CASE req[s].writes
    <3>1. IsWriter(s) /\ d \in Devices /\ FreshTokens # {} /\ old \in SUBSET Touched(s)
      BY <1>2, <1>8, <2>1 DEF HeartbeatCommit, IsWriter, Touched
    <3>2. /\ rows' = rows /\ live' = Reissued(old, NewToken, d)
          /\ req' = Replied(s, "ok", [dev |-> d, tok |-> NewToken])
      BY <1>8, <2>1 DEF HeartbeatCommit
    <3>3. Quiet /\ ~req'[s].writes
      BY <1>3, <3>1, <3>2, NewTokenFacts, RepliedQuiet
    <3>4. d = req[s].cred.dev
      OBVIOUS
    <3> HIDE DEF d, old
    <3>5. QED
      BY <3>1, <3>2, <3>3, <3>4, CommitKeeps
  <2>2. CASE ~req[s].writes
    <3>1. rows' = rows /\ live' = live /\ req' = Replied(s, "ok", NoCred)
      BY <1>8, <2>2 DEF HeartbeatCommit
    <3>2. QED
      BY <1>3, <3>1, RepliedQuiet, QuietServerFacts
  <2>3. QED
    BY <2>1, <2>2
<1>9. ASSUME NEW s \in Slots, HeartbeatRefused(s) \/ CommitFails(s)
      PROVE  Goal
  <2>1. rows' = rows /\ live' = live
    BY <1>9 DEF HeartbeatRefused, CommitFails, serverVars
  <2>2. Quiet
    BY <1>3, <1>9, RepliedQuiet DEF HeartbeatRefused, CommitFails
  <2>3. QED
    BY <2>1, <2>2, QuietServerFacts
<1>10. ASSUME NEW s \in Slots, Agent(s) \/ SaveFails(s) \/ GiveUp \/ Crash
       PROVE  Goal
  BY <1>10, AgentQuiet, QuietServerFacts DEF serverVars
<1>11. ASSUME NEW d \in Devices, DeleteDevice(d)
       PROVE  Goal
  <2>1. /\ rows' = rows \ {d} /\ req' = req
        /\ live' = [t \in Tokens |-> IF live[t].dev = d THEN NoRow ELSE live[t]]
    BY <1>11 DEF DeleteDevice, Unrevoked
  <2>2. \A t \in Tokens : live'[t].dev = IF live[t].dev = d THEN NoDevice ELSE live[t].dev
    BY <2>1 DEF NoRow
  <2>3. FlagInv' /\ SoloInv'
    BY <2>1 DEF FlagInv, SoloInv, IsWriter
  <2>4. LockInv'
    BY <2>1, <2>2 DEF LockInv, IsWriter, Touched
  <2>5. \A s \in Slots : IsWriter(s)' => IsWriter(s)
    BY <2>1 DEF IsWriter
  <2>6. SeesInv'
    BY <1>2, <2>1, <2>2, <2>5 DEF SeesInv, Unrevoked
  <2>7. QED
    BY <2>3, <2>4, <2>6
<1>12. CASE Tick
  <2>1. \A t \in Tokens : live'[t].dev = live[t].dev
    BY <1>12 DEF Tick, TypeOK
  <2>2. Quiet /\ rows' = rows
    BY <1>12 DEF Tick, Quiet
  <2>3. QED
    BY <2>1, <2>2, QuietServerFacts
<1>13. 1 \in Slots
  BY DEF Slots
<1>14. QED
  BY <1>4, <1>5, <1>6, <1>7, <1>8, <1>9, <1>10, <1>11, <1>12, <1>13 DEF Next, Serve

\* Whoever issues a token leaves the device with that one, or marks it.
LEMMA SingleIssued ==
  ASSUME TypeOK, SingleInv, NEW old, NEW d \in Devices, FreshTokens # {}, live' = Reissued(old, NewToken, d),
         \A t \in old : t \in Tokens => live[t].dev \in {NoDevice, d},
         rows' \subseteq rows \union {d},
         doubled \ {d} \subseteq doubled',
         d \in doubled' \/ Unrevoked(d) \subseteq old
  PROVE  SingleInv'
<1> USE AgentIdentityAssumption DEF AgentIdentityAssumption
<1>1. NewToken \in Tokens /\ live[NewToken].dev = NoDevice
  BY NewTokenFacts DEF NoRow
<1>2. \A t \in Tokens : live'[t].dev = IF t = NewToken THEN d
                                     ELSE IF t \in old THEN NoDevice ELSE live[t].dev
  BY DEF Reissued, NoRow
<1>3. SUFFICES ASSUME NEW e \in rows', e \notin doubled', NEW t \in Tokens, NEW u \in Tokens,
                      live'[t].dev = e, live'[u].dev = e
               PROVE  t = u
  BY DEF SingleInv, Unrevoked
<1>4. e # NoDevice
  BY <1>3 DEF TypeOK
<1>5. CASE e = d
  BY <1>2, <1>3, <1>4, <1>5 DEF Unrevoked
<1>6. CASE e # d
  <2>1. e \in rows /\ e \notin doubled
    BY <1>3, <1>6
  <2>2. live[t].dev = e /\ live[u].dev = e
    BY <1>2, <1>3, <1>4, <1>6
  <2>3. QED
    BY <2>1, <2>2 DEF SingleInv, Unrevoked
<1>7. QED
  BY <1>5, <1>6

\* Each step leaves every device that is not marked with one token, and a
\* machine with one device.
LEMMA SingleStep ==
  ASSUME TypeOK, FlagInv, LockInv, SeesInv, SingleInv, DeviceInv, Next
  PROVE  SingleInv' /\ DeviceInv'
<1> USE AgentIdentityAssumption DEF AgentIdentityAssumption
<1>1. NoDevice \notin rows /\ rows \subseteq Devices /\ twins \in BOOLEAN
  BY DEF TypeOK
<1>2. ASSUME rows' = rows, doubled' = doubled, twins' = twins, \A t \in Tokens : live'[t].dev = live[t].dev
      PROVE  SingleInv' /\ DeviceInv'
  BY <1>2 DEF SingleInv, DeviceInv, Unrevoked
<1>3. ASSUME NEW s \in Slots, RegisterNew(s)
      PROVE  SingleInv' /\ DeviceInv'
  <2>1. /\ FreshTokens # {} /\ FreshDevices # {} /\ doubled' = doubled
        /\ rows' = rows \union {NewDevice} /\ live' = Reissued({}, NewToken, NewDevice)
    BY <1>3 DEF RegisterNew
  <2>2. NewDevice \in Devices /\ NewDevice \notin rows
    BY <2>1, NewDeviceFacts
  <2>4. Unrevoked(NewDevice) = {}
    BY <1>1, <2>2 DEF TypeOK, Unrevoked, NoRow
  <2>5. SingleInv'
    BY <2>1, <2>2, <2>4, SingleIssued
  <2>6. DeviceInv'
    <3>1. CASE req[s].alone
      <4>1. IsWriter(s) /\ req[s].cred.dev = NoDevice
        BY <1>3 DEF RegisterNew, FlagInv, IsWriter
      <4>2. rows = {}
        BY <3>1, <4>1 DEF SeesInv
      <4>3. QED
        BY <2>1, <4>2 DEF DeviceInv
    <3>2. CASE ~req[s].alone
      BY <1>3, <3>2 DEF RegisterNew, DeviceInv
    <3>3. QED
      BY <3>1, <3>2
  <2>7. QED
    BY <2>5, <2>6
<1>4. ASSUME NEW s \in Slots, RegisterAgain(s)
      PROVE  SingleInv' /\ DeviceInv'
  <2> DEFINE d == req[s].cred.dev
             old == req[s].old
  <2>1. IsWriter(s) /\ d \in rows /\ d \in Devices /\ FreshTokens # {} /\ req[s].op = "register"
    BY <1>1, <1>4 DEF RegisterAgain, FlagInv, IsWriter
  <2>2. /\ rows' = rows /\ twins' = twins /\ live' = Reissued(old, NewToken, d)
        /\ doubled' = IF req[s].alone THEN doubled \ {d} ELSE doubled \union {d}
    BY <1>4 DEF RegisterAgain
  <2>3. \A t \in old : t \in Tokens => live[t].dev \in {NoDevice, d}
    BY <2>1 DEF LockInv, Touched
  <2>4. req[s].alone => Unrevoked(d) \subseteq old
    BY <2>1 DEF SeesInv
  <2> HIDE DEF d, old
  <2>6. SingleInv'
    BY <2>1, <2>2, <2>3, <2>4, SingleIssued
  <2>7. DeviceInv'
    BY <2>2 DEF DeviceInv
  <2>8. QED
    BY <2>6, <2>7
<1>5. ASSUME NEW s \in Slots, HeartbeatCommit(s)
      PROVE  SingleInv' /\ DeviceInv'
  <2> DEFINE d == req[s].cred.dev
             old == {req[s].cred.tok}
  <2>1. CASE req[s].writes
    <3>1. IsWriter(s) /\ d \in rows /\ d \in Devices /\ FreshTokens # {} /\ req[s].op = "heartbeat"
      BY <1>1, <1>5, <2>1 DEF HeartbeatCommit, IsWriter
    <3>2. /\ rows' = rows /\ twins' = twins /\ live' = Reissued(old, NewToken, d)
          /\ doubled' = IF req[s].alone THEN doubled ELSE doubled \union {d}
      BY <1>5, <2>1 DEF HeartbeatCommit
    <3>3. \A t \in old : t \in Tokens => live[t].dev \in {NoDevice, d}
      BY <3>1 DEF LockInv, Touched
    <3>4. d \in doubled' \/ Unrevoked(d) \subseteq old
      BY <3>1, <3>2 DEF SeesInv, SingleInv
    <3> HIDE DEF d, old
    <3>6. SingleInv'
      BY <3>1, <3>2, <3>3, <3>4, SingleIssued
    <3>7. DeviceInv'
      BY <3>2 DEF DeviceInv
    <3>8. QED
      BY <3>6, <3>7
  <2>2. CASE ~req[s].writes
    BY <1>2, <1>5, <2>2 DEF HeartbeatCommit
  <2>3. QED
    BY <2>1, <2>2
<1>6. ASSUME NEW d \in Devices, DeleteDevice(d)
      PROVE  SingleInv' /\ DeviceInv'
  <2>1. /\ rows' = rows \ {d} /\ doubled' = doubled \ {d} /\ twins' = twins
        /\ live' = [t \in Tokens |-> IF live[t].dev = d THEN NoRow ELSE live[t]]
    BY <1>6 DEF DeleteDevice, Unrevoked
  <2>2. \A t \in Tokens : live'[t].dev = IF live[t].dev = d THEN NoDevice ELSE live[t].dev
    BY <2>1 DEF NoRow
  <2>3. SingleInv'
    BY <1>1, <2>1, <2>2 DEF SingleInv, Unrevoked
  <2>4. DeviceInv'
    BY <2>1 DEF DeviceInv
  <2>5. QED
    BY <2>3, <2>4
<1>7. CASE Tick
  <2>1. \A t \in Tokens : live'[t].dev = live[t].dev
    BY <1>7 DEF Tick, TypeOK
  <2>2. QED
    BY <1>2, <1>7, <2>1 DEF Tick
<1>8. ASSUME NEW s \in Slots, Agent(s) \/ SaveFails(s) \/ GiveUp \/ Crash
      PROVE  SingleInv' /\ DeviceInv'
  BY <1>2, <1>8, AgentQuiet DEF serverVars
<1>9. ASSUME NEW s \in Slots, RegisterRead(s) \/ HeartbeatRead(s) \/ HeartbeatRefused(s) \/ CommitFails(s)
      PROVE  SingleInv' /\ DeviceInv'
  BY <1>2, <1>9 DEF RegisterRead, HeartbeatRead, HeartbeatRefused, CommitFails, serverVars
<1>10. 1 \in Slots
  BY DEF Slots
<1>11. QED
  BY <1>3, <1>4, <1>5, <1>6, <1>7, <1>8, <1>9, <1>10 DEF Next, Serve

LEMMA IInvInductive == IInv /\ [Next]_vars => IInv'
<1> SUFFICES ASSUME IInv, [Next]_vars PROVE IInv'
  OBVIOUS
<1>1. TypeOK /\ FlagInv /\ SoloInv /\ LockInv /\ SeesInv /\ SingleInv /\ DeviceInv
  BY DEF IInv
<1>2. CASE Next
  <2>1. TypeOK'
    BY <1>1, <1>2, TypeStep
  <2>2. FlagInv' /\ SoloInv' /\ LockInv' /\ SeesInv'
    BY <1>1, <1>2, WriterStep
  <2>3. SingleInv' /\ DeviceInv'
    BY <1>1, <1>2, SingleStep
  <2>4. QED
    BY <2>1, <2>2, <2>3 DEF IInv
<1>3. CASE UNCHANGED vars
  <2>1. TypeOK'
    BY <1>1, <1>3, TypeStep
  <2>2. FlagInv' /\ SoloInv' /\ LockInv' /\ SeesInv'
    BY <1>1, <1>3 DEF vars, FlagInv, SoloInv, LockInv, SeesInv, IsWriter, Touched, Unrevoked
  <2>3. SingleInv' /\ DeviceInv'
    BY <1>1, <1>3 DEF vars, SingleInv, DeviceInv, Unrevoked
  <2>4. QED
    BY <2>1, <2>2, <2>3 DEF IInv
<1>4. QED
  BY <1>2, <1>3

LEMMA InitIInv == Init => IInv
<1> SUFFICES ASSUME Init PROVE IInv
  OBVIOUS
<1>1. TypeOK
  BY InitTypes
<1>2. \A s \in Slots : req[s].stage = "none"
  BY DEF Init, NoRequest
<1>3. FlagInv /\ SoloInv /\ LockInv /\ SeesInv
  BY <1>2 DEF FlagInv, SoloInv, LockInv, SeesInv, IsWriter
<1>4. SingleInv /\ DeviceInv
  BY DEF Init, SingleInv, DeviceInv
<1>5. QED
  BY <1>1, <1>3, <1>4 DEF IInv

-----------------------------------------------------------------------------
(* Invariants.                                                             *)

\* register revokes the old tokens and issues one: a device has at most one
\* unless writers of its tokens overlapped.
THEOREM OneTokenAlways == Spec => []OneToken
<1>1. IInv => OneToken
  <2> SUFFICES ASSUME IInv, NEW d \in rows \ doubled PROVE Cardinality(Unrevoked(d)) <= 1
    BY DEF OneToken
  <2>1. \A t, u \in Unrevoked(d) : t = u
    BY DEF IInv, SingleInv
  <2>2. QED
    BY <2>1, AtMostOneElement
<1>2. QED
  BY <1>1, InitIInv, IInvInductive, PTL DEF Spec

\* The lookup by fingerprint keeps one device per machine unless two first
\* registrations overlapped.
THEOREM OneDeviceAlways == Spec => []OneDevice
<1>1. IInv => OneDevice
  <2> SUFFICES ASSUME IInv, ~twins PROVE Cardinality(rows) <= 1
    BY DEF OneDevice
  <2>1. \A d, e \in rows : d = e
    BY DEF IInv, DeviceInv
  <2>2. QED
    BY <2>1, AtMostOneElement
<1>2. QED
  BY <1>1, InitIInv, IInvInductive, PTL DEF Spec

-----------------------------------------------------------------------------
(* Refusals.                                                               *)

\* Credentials that open the API, of a token that is not past rotation.
Sound(c) ==
  /\ c.dev \in rows /\ c.tok \in Tokens
  /\ live[c.tok].dev = c.dev /\ live[c.tok].age <= RotateAt
\* ... and that another period does not make older than that.
Young(c) == live[c.tok].age < RotateAt

Current == Sound(mem) /\ (heard => Young(mem))

\* The agent's first registration, and its heartbeat, while no fault has
\* happened.
FirstOK(r) ==
  /\ r.op = "register"
  /\ r.stage = "read" => r.cred.dev \in rows \union {NoDevice}
  /\ r.stage = "ok" => Sound(r.cred) /\ Young(r.cred) /\ r.cred # NoCred
BeatOK(r) ==
  /\ r.op = "heartbeat"
  /\ r.stage \in {"sent", "read"} => r.cred = mem
  /\ r.stage # "ok" \/ r.cred = NoCred => Current
  /\ r.stage = "read" /\ ~r.writes => Young(mem)
  /\ r.stage = "ok" /\ r.cred # NoCred => Sound(r.cred) /\ Young(r.cred)

\* Without a fault there is one request, its answer is no refusal, and the
\* agent's token has not missed its rotation.
Calm ==
  /\ \A s \in Slots \ {slot} : req[s].stage = "none"
  /\ apc \in {"down", "first", "loop", "beat"}
  /\ apc = "down" => saved = NoCred
  /\ apc = "loop" => Current
  /\ apc \in {"first", "beat"} => req[slot].stage \in {"sent", "read", "ok"}
  /\ apc = "first" => FirstOK(req[slot])
  /\ apc = "beat" => BeatOK(req[slot])
CalmInv == faults = 0 => Calm

\* The awaited request gets its reply.
LEMMA RepliedAwaited ==
  ASSUME RequestsOK, NEW s \in Slots, s = slot, NEW c \in Cred, NEW st \in {"ok", "refused", "error"},
         req' = Replied(s, st, c)
  PROVE  /\ req'[s].stage = st /\ req'[s].op = req[s].op /\ req'[s].cred = c
         /\ \A q \in Slots \ {s} : req'[q] = req[q]
<1>1. req'[s] = [NoRequest EXCEPT !.stage = st, !.op = req[s].op, !.cred = c]
  BY DEF Replied, RequestsOK
<1>2. QED
  BY <1>1, RepliedFacts DEF NoRequest

\* What issuing a token for d leaves of the server's rows.
LEMMA IssuedSound ==
  ASSUME TypeOK, FreshTokens # {}, NEW old, NEW d, d \in rows', NEW t, t = NewToken,
         live' = Reissued(old, t, d)
  PROVE  Sound([dev |-> d, tok |-> t])' /\ Young([dev |-> d, tok |-> t])'
<1>1. t \in Tokens
  BY NewTokenFacts
<1>2. live'[t] = [dev |-> d, age |-> 0]
  BY <1>1 DEF Reissued
<1>3. QED
  BY <1>1, <1>2, AgentIdentityAssumption DEF AgentIdentityAssumption, Sound, Young

\* Without a fault the server handles the awaited request only.
LEMMA AwaitedOnly ==
  ASSUME TypeOK, Calm, NEW s \in Slots, req[s].stage # "none"
  PROVE  s = slot /\ apc \in {"first", "beat"}
<1>1. s = slot
  BY DEF Calm
<1>2. slot # 0
  BY <1>1 DEF Slots
<1>3. QED
  BY <1>1, <1>2 DEF TypeOK, Calm

LEMMA CalmServe ==
  ASSUME TypeOK, FlagInv, Calm, NEW s \in Slots, Serve(s)
  PROVE  Calm'
<1> USE AgentIdentityAssumption DEF AgentIdentityAssumption
<1>1. s = slot /\ apc \in {"first", "beat"} /\ UNCHANGED agentVars
  <2>1. req[s].stage # "none" /\ UNCHANGED agentVars
    BY DEF Serve, RegisterRead, RegisterNew, RegisterAgain, HeartbeatRead, HeartbeatRefused,
           HeartbeatCommit, CommitFails
  <2>2. QED
    BY <2>1, AwaitedOnly
<1>2. /\ UNCHANGED <<apc, slot, mem, saved>> /\ RequestsOK /\ req[s] \in Request
      /\ \A q \in Slots \ {s} : req[q].stage = "none"
  BY <1>1 DEF agentVars, TypeOK, RequestsOK, Calm
<1>3. /\ req[s].op = "register" => apc = "first" /\ FirstOK(req[s])
      /\ req[s].op = "heartbeat" => apc = "beat" /\ BeatOK(req[s])
      /\ req[s].op \in {"register", "heartbeat"}
  BY <1>1, <1>2 DEF Calm, FirstOK, BeatOK
\* It is enough that the request goes on as its sender expects.
<1>4. ASSUME \A q \in Slots \ {s} : req'[q] = req[q],
             req'[s].stage \in {"sent", "read", "ok"},
             apc = "first" => FirstOK(req[s])',
             apc = "beat" => BeatOK(req[s])'
      PROVE  Calm'
  BY <1>1, <1>2, <1>4 DEF Calm
<1>5. CASE RegisterRead(s)
  <2>1. PICK d \in Existing :
          req' = Writing(s, [req[s] EXCEPT !.stage = "read", !.writes = TRUE,
                               !.cred = [dev |-> d, tok |-> NoToken],
                               !.old = IF d = NoDevice THEN {} ELSE Unrevoked(d)])
    BY <1>5 DEF RegisterRead
  <2> DEFINE r == [req[s] EXCEPT !.stage = "read", !.writes = TRUE,
                     !.cred = [dev |-> d, tok |-> NoToken],
                     !.old = IF d = NoDevice THEN {} ELSE Unrevoked(d)]
  <2>2. r \in Request
    BY ReadFacts
  <2>3. r.stage = "read" /\ r.op = "register" /\ r.cred.dev = d
    BY <1>2, <1>5 DEF RegisterRead, Request
  <2>4. req' = Writing(s, r)
    BY <2>1
  <2> HIDE DEF r
  <2>5. req'[s] = [r EXCEPT !.alone = (Writers(r.cred.dev) = {})]
        /\ \A q \in Slots \ {s} : req'[q] = req[q]
    BY <1>2, <2>2, <2>4, WritingFacts DEF Writers
  <2>6. req'[s].stage = "read" /\ req'[s].op = "register" /\ req'[s].cred.dev = d
    BY <2>2, <2>3, <2>5 DEF Request
  <2>7. d \in rows \union {NoDevice} /\ rows' = rows
    BY <1>5 DEF Existing, RegisterRead, serverVars
  <2>8. FirstOK(req[s])'
    BY <2>6, <2>7 DEF FirstOK
  <2>9. req[s].op = "register"
    BY <1>5 DEF RegisterRead
  <2>10. QED
    BY <1>3, <1>4, <2>5, <2>6, <2>8, <2>9
<1>6. ASSUME NEW d \in Devices, d \in rows', NEW old, FreshTokens # {}, live' = Reissued(old, NewToken, d),
             req' = Replied(s, "ok", [dev |-> d, tok |-> NewToken])
      PROVE  Calm'
  <2>1. PICK t : t = NewToken
    OBVIOUS
  <2>2. t \in Tokens
    BY <1>6, <2>1, NewTokenFacts
  <2>3. PICK c : c = [dev |-> d, tok |-> t]
    OBVIOUS
  <2>4. Sound(c)' /\ Young(c)' /\ c \in Cred /\ c # NoCred /\ req' = Replied(s, "ok", c)
    <3>1. Sound([dev |-> d, tok |-> t])' /\ Young([dev |-> d, tok |-> t])'
      BY <1>6, <2>1, IssuedSound
    <3>2. QED
      BY <1>6, <2>1, <2>2, <2>3, <3>1, AgentIdentityAssumption DEF AgentIdentityAssumption, Cred, NoCred
  <2>5. /\ req'[s].stage = "ok" /\ req'[s].op = req[s].op /\ req'[s].cred = c
        /\ \A q \in Slots \ {s} : req'[q] = req[q]
    BY <1>1, <1>2, <2>4, RepliedAwaited
  <2>6. /\ req'[s].op = "register" => FirstOK(req[s])'
        /\ req'[s].op = "heartbeat" => BeatOK(req[s])'
    BY <2>4, <2>5 DEF FirstOK, BeatOK, Sound, Young
  <2>7. QED
    BY <1>3, <1>4, <2>5, <2>6
<1>7. CASE RegisterNew(s)
  <2>1. NewDevice \in Devices /\ NewDevice \in rows'
    BY <1>7, NewDeviceFacts DEF RegisterNew
  <2>2. QED
    BY <1>6, <1>7, <2>1 DEF RegisterNew
<1>8. CASE RegisterAgain(s)
  <2>1. req[s].cred.dev \in Devices /\ req[s].cred.dev \in rows'
    BY <1>8 DEF RegisterAgain, TypeOK
  <2>2. QED
    BY <1>6, <1>8, <2>1 DEF RegisterAgain
<1>9. CASE HeartbeatRead(s)
  <2>1. req[s].op = "heartbeat" /\ req[s].stage = "sent" /\ UNCHANGED serverVars /\ heard' = heard
    BY <1>9 DEF HeartbeatRead
  <2>2. apc = "beat" /\ req[s].cred = mem /\ Current
    BY <1>3, <2>1 DEF BeatOK
  <2>3. ASSUME \A q \in Slots \ {s} : req'[q] = req[q], req'[s].stage = "read",
               req'[s].op = "heartbeat", req'[s].cred = mem, ~req'[s].writes => Young(mem)
        PROVE  Calm'
    <3>1. BeatOK(req[s])'
      BY <1>2, <2>1, <2>2, <2>3 DEF BeatOK, Current, Sound, Young, serverVars
    <3>2. QED
      BY <1>4, <2>2, <2>3, <3>1
  <2>4. CASE RotateDue(req[s].cred.tok)
    <3> DEFINE r == [req[s] EXCEPT !.stage = "read", !.writes = TRUE]
    <3>1. r \in Request
      BY ReadFacts
    <3>2. r.stage = "read" /\ r.writes /\ r.op = "heartbeat" /\ r.cred = mem
      BY <1>2, <2>1, <2>2 DEF Request
    <3>3. req' = Writing(s, r)
      BY <1>9, <2>4 DEF HeartbeatRead
    <3> HIDE DEF r
    <3>4. req'[s] = [r EXCEPT !.alone = (Writers(r.cred.dev) = {})]
          /\ \A q \in Slots \ {s} : req'[q] = req[q]
      BY <1>2, <3>1, <3>3, WritingFacts DEF Writers
    <3>5. req'[s].stage = "read" /\ req'[s].op = "heartbeat" /\ req'[s].cred = mem /\ req'[s].writes
      BY <3>1, <3>2, <3>4 DEF Request
    <3>6. QED
      BY <2>3, <3>4, <3>5
  <2>5. CASE ~RotateDue(req[s].cred.tok)
    <3>1. req' = [req EXCEPT ![s] = [req[s] EXCEPT !.stage = "read"]]
      BY <1>9, <2>5 DEF HeartbeatRead
    <3>2. req'[s].stage = "read" /\ req'[s].op = "heartbeat" /\ req'[s].cred = mem
          /\ \A q \in Slots \ {s} : req'[q] = req[q]
      BY <1>2, <2>1, <2>2, <3>1 DEF Request, RequestsOK
    <3>3. Young(mem)
      <4>1. mem.tok \in Tokens /\ live[mem.tok].age \in Nat
        BY <2>2 DEF Current, Sound, TypeOK
      <4>2. QED
        BY <2>2, <2>5, <4>1 DEF RotateDue, Young
    <3>4. QED
      BY <2>3, <3>2, <3>3
  <2>6. QED
    BY <2>4, <2>5
\* The token is not past its rotation, hence valid.
<1>10. ~HeartbeatRefused(s)
  <2> SUFFICES ASSUME HeartbeatRefused(s) PROVE FALSE
    OBVIOUS
  <2>1. req[s].op = "heartbeat" /\ req[s].stage = "sent" /\ ~Valid(req[s].cred)
    BY DEF HeartbeatRefused
  <2>2. req[s].cred = mem /\ Sound(mem)
    BY <1>3, <2>1 DEF BeatOK, Current
  <2>3. live[mem.tok].age \in Nat
    BY <2>2 DEF Sound, TypeOK
  <2>4. QED
    BY <2>1, <2>2, <2>3 DEF Valid, Sound
<1>11. CASE HeartbeatCommit(s)
  <2>1. req[s].op = "heartbeat" /\ req[s].stage = "read" /\ rows' = rows /\ heard'
    BY <1>11 DEF HeartbeatCommit
  <2>2. CASE req[s].writes
    <3>1. req[s].cred.dev \in Devices /\ req[s].cred.dev \in rows'
      BY <1>11 DEF HeartbeatCommit, TypeOK
    <3>2. QED
      BY <1>6, <1>11, <2>2, <3>1 DEF HeartbeatCommit
  <2>3. CASE ~req[s].writes
    <3>1. req' = Replied(s, "ok", NoCred) /\ live' = live
      BY <1>11, <2>3 DEF HeartbeatCommit
    <3>2. Current /\ Young(mem)
      BY <1>3, <2>1, <2>3 DEF BeatOK
    <3>3. /\ req'[s].stage = "ok" /\ req'[s].op = "heartbeat" /\ req'[s].cred = NoCred
          /\ \A q \in Slots \ {s} : req'[q] = req[q]
      BY <1>1, <1>2, <2>1, <3>1, Constants, RepliedAwaited
    <3>4. BeatOK(req[s])'
      BY <1>2, <2>1, <3>1, <3>2, <3>3 DEF BeatOK, Current, Sound, Young
    <3>5. QED
      BY <1>3, <1>4, <2>1, <3>3, <3>4
  <2>4. QED
    BY <2>2, <2>3
\* Nobody deletes devices.
<1>12. ~CommitFails(s)
  <2> SUFFICES ASSUME CommitFails(s) PROVE FALSE
    OBVIOUS
  <2>1. req[s].stage = "read" /\ req[s].cred.dev \in Devices \ rows
    BY DEF CommitFails
  <2>2. CASE req[s].op = "register"
    BY <1>3, <2>1, <2>2 DEF FirstOK
  <2>3. CASE req[s].op = "heartbeat"
    BY <1>3, <2>1, <2>3 DEF BeatOK, Current, Sound
  <2>4. QED
    BY <1>3, <2>2, <2>3
<1>13. QED
  BY <1>5, <1>7, <1>8, <1>9, <1>10, <1>11, <1>12 DEF Serve

LEMMA CalmAgent ==
  ASSUME TypeOK, Calm, NEW s \in Slots, Agent(s)
  PROVE  Calm'
<1> USE AgentIdentityAssumption DEF AgentIdentityAssumption
<1>1. req \in [Slots -> Request] /\ 0 \notin Slots
  BY DEF TypeOK, Slots
<1>2. NoRequest.stage = "none"
  BY DEF NoRequest
<1>3. \A op \in {"register", "heartbeat"} : \A c :
        LET r == Send(s, op, c) IN r.stage = "sent" /\ r.op = op /\ r.cred = c
  BY DEF Send, NoRequest
<1>4. UNCHANGED serverVars /\ heard' = heard
  BY DEF Agent, Start, Beat, Registered, Accepted, Refused, Failed
<1>5. \A c : (Sound(c) => Sound(c)') /\ (Young(c) => Young(c)')
  BY <1>4 DEF Sound, Young, serverVars
\* An idle agent waits for nothing.
<1>6. apc \in {"down", "loop"} => \A q \in Slots : req[q].stage = "none"
  BY <1>1 DEF TypeOK, Calm
<1> HIDE DEF NoRequest, Send, Request
<1>7. CASE Start(s)
  <2>1. saved = NoCred /\ apc = "down"
    BY <1>7 DEF Start, Calm
  <2>2. apc' = "first" /\ slot' = s /\ req' = [req EXCEPT ![s] = Send(s, "register", NoCred)]
    BY <1>7, <2>1 DEF Start
  <2>3. req'[s].stage = "sent" /\ req'[s].op = "register"
    BY <1>1, <1>3, <2>2
  <2>4. \A q \in Slots \ {s} : req'[q].stage = "none"
    BY <1>1, <1>6, <2>1, <2>2
  <2>5. QED
    BY <2>2, <2>3, <2>4 DEF Calm, FirstOK
<1>8. CASE Beat(s)
  <2>1. apc = "loop" /\ apc' = "beat" /\ slot' = s /\ mem' = mem
        /\ req' = [req EXCEPT ![s] = Send(s, "heartbeat", mem)]
    BY <1>8 DEF Beat
  <2>2. req'[s].stage = "sent" /\ req'[s].op = "heartbeat" /\ req'[s].cred = mem
    BY <1>1, <1>3, <2>1
  <2>3. \A q \in Slots \ {s} : req'[q].stage = "none"
    BY <1>1, <1>6, <2>1
  <2>4. Current'
    BY <1>4, <1>5, <2>1 DEF Calm, Current, Sound, Young, serverVars
  <2>5. BeatOK(req[s])'
    BY <2>1, <2>2, <2>4 DEF BeatOK
  <2>6. QED
    BY <2>1, <2>2, <2>3, <2>5 DEF Calm
<1>9. ASSUME slot = s, Free(s), apc' = "loop", Current'
      PROVE  Calm'
  <2>1. \A q \in Slots : req'[q].stage = "none"
    BY <1>1, <1>2, <1>9 DEF Free, Calm
  <2>2. QED
    BY <1>9, <2>1 DEF Calm
<1>10. CASE Registered(s)
  <2>1. /\ slot = s /\ apc \in {"first", "again"} /\ req[s].stage = "ok"
        /\ mem' = req[s].cred /\ apc' = "loop" /\ Free(s)
    BY <1>10 DEF Registered, Answered
  <2>2. Sound(req[s].cred) /\ Young(req[s].cred)
    BY <2>1 DEF Calm, FirstOK
  <2>3. Current'
    BY <1>4, <2>1, <2>2 DEF Current, Sound, Young, serverVars
  <2>4. QED
    BY <1>9, <2>1, <2>3
<1>11. CASE Accepted(s)
  <2>1. slot = s /\ apc = "beat" /\ req[s].stage = "ok" /\ apc' = "loop" /\ Free(s)
    BY <1>11 DEF Accepted, Answered
  <2>2. BeatOK(req[s])
    BY <2>1 DEF Calm
  <2>3. CASE req[s].cred = NoCred
    <3>1. mem' = mem /\ Current
      BY <1>11, <2>1, <2>2, <2>3 DEF Accepted, BeatOK
    <3>2. Current'
      BY <1>4, <3>1 DEF Current, Sound, Young, serverVars
    <3>3. QED
      BY <1>9, <2>1, <3>2
  <2>4. CASE req[s].cred # NoCred
    <3>1. mem' = req[s].cred /\ Sound(req[s].cred) /\ Young(req[s].cred)
      BY <1>11, <2>1, <2>2, <2>4 DEF Accepted, BeatOK
    <3>2. Current'
      BY <1>4, <3>1 DEF Current, Sound, Young, serverVars
    <3>3. QED
      BY <1>9, <2>1, <3>2
  <2>5. QED
    BY <2>3, <2>4
<1>12. ~Refused(s) /\ ~Failed(s)
  BY DEF Refused, Failed, Answered, Calm
<1>13. QED
  BY <1>7, <1>8, <1>10, <1>11, <1>12 DEF Agent

LEMMA CalmTick ==
  ASSUME TypeOK, Calm, Tick, faults' = faults
  PROVE  Calm'
<1> USE AgentIdentityAssumption DEF AgentIdentityAssumption
<1>1. UNCHANGED <<apc, slot, mem, saved, req, rows>> /\ ~heard' /\ apc \in {"down", "loop"}
  BY DEF Tick, agentVars, TypeOK
<1>2. faults \in Nat /\ (heard \/ apc = "down")
  BY DEF Tick, TypeOK
<1>3. ASSUME apc = "loop"
      PROVE  Current'
  <2>1. Sound(mem) /\ Young(mem)
    BY <1>2, <1>3 DEF Calm, Current
  <2> DEFINE t == mem.tok
  <2>2. t \in Tokens /\ live[t].dev = mem.dev /\ mem.dev \in rows /\ live[t].age < RotateAt
    BY <2>1 DEF Sound, Young
  <2>3. live[t] \in [dev : Devices \union {NoDevice}, age : 0 .. Lifetime]
    BY <2>2 DEF TypeOK
  <2>4. live'[t] = IF live[t] # NoRow /\ live[t].age < Lifetime
                   THEN [live[t] EXCEPT !.age = @ + 1] ELSE live[t]
    BY <2>2 DEF Tick
  <2>5. live'[t].dev = live[t].dev /\ live'[t].age <= RotateAt
    <3>1. CASE live'[t] = live[t]
      BY <2>2, <2>3, <3>1
    <3>2. CASE live'[t] = [live[t] EXCEPT !.age = @ + 1]
      BY <2>2, <2>3, <3>2
    <3>3. QED
      BY <2>4, <3>1, <3>2
  <2> HIDE DEF t
  <2>6. mem' = mem /\ mem.tok = t
    BY <1>1 DEF t
  <2>7. QED
    BY <1>1, <2>2, <2>5, <2>6 DEF Current, Sound
<1>4. QED
  BY <1>1, <1>3 DEF Calm

LEMMA CalmStep ==
  ASSUME TypeOK, FlagInv, CalmInv, [Next]_vars
  PROVE  CalmInv'
<1> SUFFICES ASSUME faults' = 0 PROVE Calm'
  BY DEF CalmInv
<1>1. faults \in Nat
  BY AgentIdentityAssumption DEF AgentIdentityAssumption, TypeOK
<1>2. ASSUME faults' = faults + 1
      PROVE  FALSE
  BY <1>1, <1>2
<1>3. ASSUME NEW s \in Slots, Serve(s)
      PROVE  Calm'
  <2>1. faults' = faults
    BY <1>3 DEF Serve, RegisterRead, RegisterNew, RegisterAgain, HeartbeatRead, HeartbeatRefused,
                HeartbeatCommit, CommitFails
  <2>2. QED
    BY <1>3, <2>1, CalmServe DEF CalmInv
<1>4. ASSUME NEW s \in Slots, Agent(s)
      PROVE  Calm'
  <2>1. faults' = faults
    BY <1>4 DEF Agent, Start, Beat, Registered, Accepted, Refused, Failed
  <2>2. QED
    BY <1>4, <2>1, CalmAgent DEF CalmInv
<1>5. ASSUME NEW s \in Slots, SaveFails(s)
      PROVE  Calm'
  BY <1>2, <1>5 DEF SaveFails
<1>6. ASSUME NEW d \in Devices, DeleteDevice(d)
      PROVE  Calm'
  BY <1>2, <1>6 DEF DeleteDevice
<1>7. GiveUp \/ Crash => Calm'
  BY <1>2 DEF GiveUp, Crash
<1>8. CASE Tick
  <2>1. faults' = faults
    BY <1>2, <1>8 DEF Tick
  <2>2. QED
    BY <1>8, <2>1, CalmTick DEF CalmInv
<1>9. CASE UNCHANGED vars
  BY <1>9 DEF vars, CalmInv, Calm, Current, FirstOK, BeatOK, Sound, Young
<1>10. QED
  BY <1>3, <1>4, <1>5, <1>6, <1>7, <1>8, <1>9 DEF Next

\* Rotation comes before expiry: without a fault the agent's token is never
\* past its rotation when it is sent, so nothing refuses it.
THEOREM RefusedForCauseAlways == Spec => []RefusedForCause
<1>1. Init => CalmInv
  BY DEF Init, CalmInv, Calm, NoRequest
<1>2. IInv /\ CalmInv /\ [Next]_vars => CalmInv'
  BY CalmStep DEF IInv
<1>3. IInv /\ CalmInv => RefusedForCause
  <2> SUFFICES ASSUME TypeOK, CalmInv, NEW s \in Slots, req[s].stage = "refused", ~(faults > 0)
               PROVE  FALSE
    BY DEF IInv, RefusedForCause
  <2>1. Calm
    BY AgentIdentityAssumption DEF AgentIdentityAssumption, TypeOK, CalmInv
  <2>2. s = slot /\ apc \in {"first", "beat"}
    BY <2>1, AwaitedOnly
  <2>3. QED
    BY <2>1, <2>2 DEF Calm
<1>4. QED
  BY <1>1, <1>2, <1>3, InitIInv, IInvInductive, PTL DEF Spec
=============================================================================
