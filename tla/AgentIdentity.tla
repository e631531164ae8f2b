--------------------------- MODULE AgentIdentity ---------------------------
(***************************************************************************)
(* The credentials of one managed machine: the rows of devices and         *)
(* agent_tokens (api/routes/agents.py), and the copies the agent keeps in  *)
(* its config file, its API client and its terminal worker                 *)
(* (agent/rmm_agent.py, agent/terminal_worker.py).                         *)
(*                                                                         *)
(* A handler reads in one step and commits in another; a request whose     *)
(* sender gave up may be handled late or never.  Revoked tokens are no     *)
(* rows, since every query leaves them out; ages are counted in periods    *)
(* of days.                                                                *)
(***************************************************************************)
EXTENDS Naturals, FiniteSets

CONSTANTS
  Devices, Tokens,   \* identifiers, reused once nothing holds them
  NoDevice, NoToken,
  RotateAt,   \* age from which fewer than _TOKEN_ROTATE_BEFORE_DAYS are left
  Lifetime,   \* _TOKEN_LIFETIME_DAYS
  MaxFaults   \* bound: lost requests, crashes, failed saves, deletions

ASSUME AgentIdentityAssumption ==
  /\ NoDevice \notin Devices /\ NoToken \notin Tokens
  /\ RotateAt \in Nat \ {0} /\ Lifetime \in Nat /\ MaxFaults \in Nat
  /\ RotateAt < Lifetime

VARIABLES
  rows,     \* devices with this machine's hardware fingerprint
  live,     \* live[t]: device and age of the unrevoked token t
  req,      \* req[s]: a request, its handler and its reply
  apc,      \* the agent's main loop
  slot,     \* the request the agent waits for, or 0
  mem,      \* credentials of the API client
  worker,   \* credentials of the terminal worker
  saved,    \* credentials in the config file, the token perhaps in the OS keyring
  heard,    \* a heartbeat was accepted in this period
  faults,
  doubled,  \* history: devices whose token writers overlapped, until one ran alone
  twins     \* history: overlapping registrations created a device each

serverVars == <<rows, live, doubled, twins>>
agentVars  == <<apc, slot, mem, worker, saved>>
vars == <<rows, live, req, apc, slot, mem, worker, saved, heard, faults, doubled, twins>>

Cred   == [dev : Devices \union {NoDevice}, tok : Tokens \union {NoToken}]
NoCred == [dev |-> NoDevice, tok |-> NoToken]
\* The config file between its opening, which empties it, and its writing.
Torn   == [dev |-> NoDevice, tok |-> "torn"]

Slots   == 1 .. MaxFaults + 1
Request == [stage  : {"none", "sent", "read", "ok", "refused", "error"},
            op     : {"register", "heartbeat"},
            cred   : Cred,           \* sent with it; the device found; the reply's
            writes : BOOLEAN,        \* it will issue a token
            old    : SUBSET Tokens,  \* tokens its UPDATE has locked and revokes
            alone  : BOOLEAN]        \* history: no other writer since it has read
NoRequest == [stage |-> "none", op |-> "register", cred |-> NoCred,
              writes |-> FALSE, old |-> {}, alone |-> TRUE]
NoRow == [dev |-> NoDevice, age |-> 0]

Init ==
  /\ rows = {} /\ live = [t \in Tokens |-> NoRow]
  /\ req = [s \in Slots |-> NoRequest]
  /\ apc = "down" /\ slot = 0
  /\ mem = NoCred /\ worker = NoCred /\ saved = NoCred
  /\ heard = FALSE /\ faults = 0
  /\ doubled = {} /\ twins = FALSE

-----------------------------------------------------------------------------
(* Tokens.                                                                 *)

\* _get_device_by_token finds the token and its device.
Valid(c) ==
  /\ c.dev \in rows /\ c.tok \in Tokens
  /\ live[c.tok].dev = c.dev /\ live[c.tok].age < Lifetime

Unrevoked(d) == {t \in Tokens : live[t].dev = d}
RotateExpired(t) == live[t].age >= Lifetime   \* mutant: once it has expired
RotateDue(t) == live[t].age >= RotateAt

\* uuid4 and token_hex never repeat: an identifier is new if nothing holds it.
Held == {mem, worker, saved} \union {req[s].cred : s \in Slots}
FreshTokens  == {t \in Tokens  : /\ live[t] = NoRow /\ \A c \in Held : c.tok # t
                                 /\ \A s \in Slots : t \notin req[s].old}
FreshDevices == {d \in Devices : d \notin rows /\ \A c \in Held : c.dev # d}
NewToken  == CHOOSE t \in FreshTokens : TRUE
NewDevice == CHOOSE d \in FreshDevices : TRUE

\* mutant: the old tokens stay
ReissuedKeeping(old, t, d) ==
  [u \in Tokens |-> IF u = t THEN [dev |-> d, age |-> 0] ELSE live[u]]

\* live without the tokens in old, and with a new one t for d.
Reissued(old, t, d) ==
  [u \in Tokens |-> IF u = t THEN [dev |-> d, age |-> 0]
                    ELSE IF u \in old THEN NoRow ELSE live[u]]

-----------------------------------------------------------------------------
(* Handlers.                                                               *)

\* Writers of d's tokens between their read and their commit; NoDevice
\* stands for the row a registration is about to create.
Writers(d) == {s \in Slots : req[s].stage = "read" /\ req[s].writes /\ req[s].cred.dev = d}
Locked(t)  == \E s \in Slots : req[s].stage = "read" /\ t \in req[s].old

\* Request s has read d and will write its tokens.
Writing(s, r) ==
  [q \in Slots |->
    IF q = s THEN [r EXCEPT !.alone = (Writers(r.cred.dev) = {})]
    ELSE IF q \in Writers(r.cred.dev) THEN [req[q] EXCEPT !.alone = FALSE] ELSE req[q]]

\* mutant: every reply is kept
RepliedAlways(s, stage, c) ==
  [req EXCEPT ![s] = [NoRequest EXCEPT !.stage = stage, !.op = req[s].op, !.cred = c]]

\* Nobody reads the reply to a request that was given up.
Replied(s, stage, c) ==
  [req EXCEPT ![s] = IF s = slot THEN [NoRequest EXCEPT !.stage = stage, !.op = req[s].op, !.cred = c]
                     ELSE NoRequest]

\* What register may find by the fingerprint: the first of several, or none.
ExistingNever == {NoDevice}   \* mutant: the fingerprint is not looked up
Existing == IF rows = {} THEN {NoDevice} ELSE rows

\* register revokes the tokens it sees of the device it finds.
RegisterRead(s) ==
  /\ req[s].stage = "sent" /\ req[s].op = "register"
  /\ \E d \in Existing :
       req' = Writing(s, [req[s] EXCEPT !.stage = "read", !.writes = TRUE,
                            !.cred = [dev |-> d, tok |-> NoToken],
                            !.old = IF d = NoDevice THEN {} ELSE Unrevoked(d)])
  /\ UNCHANGED <<serverVars, agentVars, heard, faults>>

\* It adds the row and a token and commits.
RegisterNew(s) ==
  /\ req[s].stage = "read" /\ req[s].op = "register" /\ req[s].cred.dev = NoDevice
  /\ FreshDevices # {} /\ FreshTokens # {}
  /\ rows' = rows \union {NewDevice}
  /\ live' = Reissued({}, NewToken, NewDevice)
  /\ req' = Replied(s, "ok", [dev |-> NewDevice, tok |-> NewToken])
  /\ twins' = (twins \/ ~req[s].alone)
  /\ UNCHANGED <<doubled, agentVars, heard, faults>>

RegisterAgain(s) ==
  LET d == req[s].cred.dev IN
  /\ req[s].stage = "read" /\ req[s].op = "register" /\ d \in rows
  /\ FreshTokens # {}
  /\ live' = Reissued(req[s].old, NewToken, d)
  /\ req' = Replied(s, "ok", [dev |-> d, tok |-> NewToken])
  /\ doubled' = IF req[s].alone THEN doubled \ {d} ELSE doubled \union {d}
  /\ UNCHANGED <<rows, twins, agentVars, heard, faults>>

\* heartbeat authenticates and decides whether to rotate.
HeartbeatRead(s) ==
  /\ req[s].stage = "sent" /\ req[s].op = "heartbeat" /\ Valid(req[s].cred)
  /\ req' = IF RotateDue(req[s].cred.tok)
            THEN Writing(s, [req[s] EXCEPT !.stage = "read", !.writes = TRUE])
            ELSE [req EXCEPT ![s].stage = "read"]
  /\ UNCHANGED <<serverVars, agentVars, heard, faults>>

HeartbeatRefused(s) ==
  /\ req[s].stage = "sent" /\ req[s].op = "heartbeat" /\ ~Valid(req[s].cred)
  /\ req' = Replied(s, "refused", NoCred)
  /\ UNCHANGED <<serverVars, agentVars, heard, faults>>

\* The commit writes the token's row and waits for its lock.
HeartbeatCommit(s) ==
  LET c == req[s].cred IN
  /\ req[s].stage = "read" /\ req[s].op = "heartbeat"
  /\ c.dev \in rows /\ ~Locked(c.tok)
  /\ IF req[s].writes
     THEN /\ FreshTokens # {}
          /\ live' = Reissued({c.tok}, NewToken, c.dev)
          /\ req' = Replied(s, "ok", [dev |-> c.dev, tok |-> NewToken])
          /\ doubled' = IF req[s].alone THEN doubled ELSE doubled \union {c.dev}
     ELSE /\ req' = Replied(s, "ok", NoCred)
          /\ UNCHANGED <<live, doubled>>
  /\ heard' = TRUE
  /\ UNCHANGED <<rows, twins, agentVars, faults>>

\* The device was deleted since: the UPDATE matches no row, status 500.
CommitFails(s) ==
  /\ req[s].stage = "read" /\ req[s].cred.dev \in Devices \ rows
  /\ req' = Replied(s, "error", NoCred)
  /\ UNCHANGED <<serverVars, agentVars, heard, faults>>

\* An administrator deletes a device; its tokens go with it.
DeleteDevice(d) ==
  /\ faults < MaxFaults /\ d \in rows
  /\ \A t \in Unrevoked(d) : ~Locked(t)
  /\ rows' = rows \ {d} /\ doubled' = doubled \ {d}
  /\ live' = [t \in Tokens |-> IF t \in Unrevoked(d) THEN NoRow ELSE live[t]]
  /\ faults' = faults + 1
  /\ UNCHANGED <<twins, req, agentVars, heard>>

-----------------------------------------------------------------------------
(* The agent.                                                              *)

Send(s, op, c) == [NoRequest EXCEPT !.stage = "sent", !.op = op, !.cred = c]

\* main: with credentials the loop starts, without them registration does.
Start(s) ==
  /\ apc = "down" /\ saved # Torn /\ req[s] = NoRequest
  /\ IF saved = NoCred
     THEN apc' = "first" /\ slot' = s /\ req' = [req EXCEPT ![s] = Send(s, "register", NoCred)]
     ELSE apc' = "loop" /\ UNCHANGED <<slot, req>>
  /\ mem' = saved /\ worker' = saved
  /\ UNCHANGED <<serverVars, saved, heard, faults>>

Beat(s) ==
  /\ apc = "loop" /\ req[s] = NoRequest
  /\ apc' = "beat" /\ slot' = s
  /\ req' = [req EXCEPT ![s] = Send(s, "heartbeat", mem)]
  /\ UNCHANGED <<serverVars, mem, worker, saved, heard, faults>>

Free(s) == req' = [req EXCEPT ![s] = NoRequest] /\ slot' = 0
Answered(s, pcs, stages) == slot = s /\ apc \in pcs /\ req[s].stage \in stages

\* register saves the new credentials; only at the start does the terminal
\* worker get them.
Registered(s) ==
  /\ Answered(s, {"first", "again"}, {"ok"})
  /\ mem' = req[s].cred /\ saved' = req[s].cred
  /\ worker' = IF apc = "first" THEN req[s].cred ELSE worker
  /\ apc' = "loop" /\ Free(s)
  /\ UNCHANGED <<serverVars, heard, faults>>

\* A new token is saved and given to the client and the worker, which keeps
\* its device.
Accepted(s) ==
  /\ Answered(s, {"beat"}, {"ok"})
  /\ IF req[s].cred = NoCred THEN UNCHANGED <<mem, worker, saved>>
     ELSE /\ mem' = req[s].cred /\ saved' = req[s].cred
          /\ worker' = [worker EXCEPT !.tok = req[s].cred.tok]
  /\ apc' = "loop" /\ Free(s)
  /\ UNCHANGED <<serverVars, heard, faults>>

\* mutant: status 401 is a failure like any other
RefusedBacksOff(s) ==
  /\ Answered(s, {"beat"}, {"refused"})
  /\ apc' = "loop" /\ Free(s)
  /\ UNCHANGED <<serverVars, mem, worker, saved, heard, faults>>

\* Status 401: register again.
Refused(s) ==
  /\ Answered(s, {"beat"}, {"refused"})
  /\ apc' = "again" /\ req' = [req EXCEPT ![s] = Send(s, "register", NoCred)]
  /\ UNCHANGED <<serverVars, slot, mem, worker, saved, heard, faults>>

\* Without an answer to a heartbeat the loop goes on, without one to a
\* registration the process exits.
Backoff == IF apc = "beat" THEN apc' = "loop" /\ UNCHANGED <<mem, worker>>
           ELSE apc' = "down" /\ mem' = NoCred /\ worker' = NoCred

Failed(s) ==
  /\ Answered(s, {"first", "again", "beat"}, {"error"})
  /\ Backoff /\ Free(s)
  /\ UNCHANGED <<serverVars, saved, heard, faults>>

\* The request or its answer is late or lost.
GiveUp ==
  /\ slot # 0 /\ faults < MaxFaults /\ faults' = faults + 1
  /\ Backoff /\ slot' = 0
  /\ req' = IF req[slot].stage \in {"sent", "read"} THEN req ELSE [req EXCEPT ![slot] = NoRequest]
  /\ UNCHANGED <<serverVars, saved, heard>>

\* The outcomes of a save of c that stops halfway.  The token goes first: if
\* the file refers to the OS keyring, the token it names is now that of c,
\* beside the device it had.  Then the file is emptied, and written.
HalfSaved(c) ==
  {saved, Torn} \union
  IF saved \in {NoCred, Torn} THEN {} ELSE {[saved EXCEPT !.tok = c.tok]}

\* The agent has new credentials and saves them.
Saving(s) == Answered(s, {"first", "again", "beat"}, {"ok"}) /\ req[s].cred # NoCred

\* A save raises: main's start does not survive it, its loop logs it and goes
\* on with the credentials it had.
SaveFails(s) ==
  /\ Saving(s) /\ faults < MaxFaults /\ faults' = faults + 1
  /\ IF apc = "first" THEN apc' = "down" /\ mem' = NoCred /\ worker' = NoCred
     ELSE apc' = "loop" /\ UNCHANGED <<mem, worker>>
  /\ saved' \in HalfSaved(req[s].cred)
  /\ Free(s)
  /\ UNCHANGED <<serverVars, heard>>

\* The process dies, perhaps in the middle of a save.
Crash ==
  /\ apc # "down" /\ faults < MaxFaults /\ faults' = faults + 1
  /\ apc' = "down" /\ mem' = NoCred /\ worker' = NoCred /\ slot' = 0
  /\ \/ saved' = saved
     \/ slot # 0 /\ Saving(slot) /\ saved' \in HalfSaved(req[slot].cred)
  /\ req' = IF slot # 0 /\ req[slot].stage \notin {"sent", "read"}
            THEN [req EXCEPT ![slot] = NoRequest] ELSE req
  /\ UNCHANGED <<serverVars, heard>>

\* Days pass, many heartbeats each: one of them got through, or the agent is
\* down, or the network was.  No request takes days.
Tick ==
  /\ slot = 0 /\ \A s \in Slots : req[s].stage # "read"
  /\ \/ (heard \/ apc = "down") /\ faults' = faults
     \/ ~heard /\ apc = "loop" /\ faults < MaxFaults /\ faults' = faults + 1
  /\ heard' = FALSE
  /\ live' = [t \in Tokens |-> IF live[t] # NoRow /\ live[t].age < Lifetime
                               THEN [live[t] EXCEPT !.age = @ + 1] ELSE live[t]]
  /\ UNCHANGED <<rows, doubled, twins, req, agentVars>>

-----------------------------------------------------------------------------
(* The specification.                                                      *)

Serve(s) ==
  \/ RegisterRead(s) \/ RegisterNew(s) \/ RegisterAgain(s)
  \/ HeartbeatRead(s) \/ HeartbeatRefused(s) \/ HeartbeatCommit(s)
  \/ CommitFails(s)

Agent(s) ==
  \/ Start(s) \/ Beat(s)
  \/ Registered(s) \/ Accepted(s) \/ Refused(s) \/ Failed(s)

Next ==
  \/ \E s \in Slots : Serve(s) \/ Agent(s) \/ SaveFails(s)
  \/ \E d \in Devices : DeleteDevice(d)
  \/ GiveUp \/ Crash \/ Tick

Spec == Init /\ [][Next]_vars

\* The agent is installed to be started again and its loop goes on; the
\* server answers who waits and ends the handlers it has begun.  Requests
\* given up, faults and time owe nothing.
FairSpec ==
  /\ Spec
  /\ WF_vars(\E s \in Slots : Agent(s))
  /\ WF_vars(\E s \in Slots : s = slot /\ Serve(s))
  /\ \A s \in Slots : WF_vars(req[s].stage = "read" /\ Serve(s))

-----------------------------------------------------------------------------
(* Properties.                                                             *)

\* Every variable has its type; the agent waits for exactly one request when
\* it waits, and credentials on their way name a device and a token.
TypeOK ==
  /\ rows \subseteq Devices /\ doubled \subseteq rows /\ twins \in BOOLEAN
  /\ live \in [Tokens -> [dev : Devices \union {NoDevice}, age : 0 .. Lifetime]]
  /\ \A t \in Tokens : live[t] = NoRow \/ live[t].dev \in rows
  /\ req \in [Slots -> Request]
  /\ apc \in {"down", "loop", "beat", "first", "again"}
  /\ slot \in Slots \union {0}
  /\ (slot = 0 <=> apc \in {"down", "loop"})
  /\ \A s \in Slots : s # slot => req[s].stage \in {"none", "sent", "read"}
  /\ mem \in Cred /\ worker \in Cred /\ saved \in Cred \union {Torn}
  /\ heard \in BOOLEAN /\ faults \in 0 .. MaxFaults

\* A device has at most one token that opens the API, unless registrations
\* or rotations of it overlapped since the last registration that ran alone:
\* late handlers of requests given up included (register: "revoke old tokens,
\* issue new one").
OneToken == \A d \in rows \ doubled : Cardinality(Unrevoked(d)) <= 1

\* One machine is one device, unless two of its first registrations
\* overlapped: the fingerprint has no unique constraint.
OneDevice == ~twins => Cardinality(rows) <= 1

\* Rotation comes before expiry: an agent whose requests are answered, whose
\* saves succeed and whose device is left alone never meets a 401.
RefusedForCause == \A s \in Slots : req[s].stage = "refused" => faults > 0

\* Lost rotation replies, late registrations, saves that stop halfway, crashes,
\* expiry and deletion do not lock an agent out: it is heard again, unless it
\* stopped when its config file was empty, which it then cannot read.  A live
\* agent repairs the file with the next credentials it gets.
HeardAgain == ~heard ~> (heard \/ (saved = Torn /\ apc = "down"))

=============================================================================
