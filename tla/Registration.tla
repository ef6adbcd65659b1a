---------------------------- MODULE Registration ----------------------------
(***************************************************************************)
(* Registering and logging in through the api-gateway: AuthService of the  *)
(* gateway, whose proxy repeats a failed or timed out call, and AuthService *)
(* of the users-service, which looks an e-mail up, hashes the password and *)
(* saves the user in separate steps, on a table where the e-mail is unique. *)
(*                                                                         *)
(* A call the gateway has given up still runs to its end, beside the       *)
(* attempt that replaced it and the calls of other clients.  GatewayProxy  *)
(* says when the circuit refuses; here it may refuse any request.          *)
(***************************************************************************)
EXTENDS Naturals, FiniteSets

CONSTANTS Clients, Emails,
          MaxRetries,    \* 4 in the code
          MaxFaults,     \* bound: failing database calls and crashes
          None

ASSUME RegistrationAssumption ==
  /\ IsFiniteSet(Clients)
  /\ MaxRetries \in Nat /\ MaxFaults \in Nat
  /\ None \notin Emails \cup {"created", "conflict", "unavailable", "token", "unauthorized"}

VARIABLES
  users,    \* the table: [email, owner, attempt], the owner being whose password it
            \* holds; the insert of every attempt is a row with an id of its own
  client,   \* [op, email, phase, attempt, answer] of each client
  call,     \* call[c][n]: where the handler of attempt n of c's registration is
  told,     \* history: what the client's registration was answered, or None
  lost,     \* history: attempts of c's registration that timed out or met a fault
  faults

vars == <<users, client, call, told, lost, faults>>

Attempts == 1..(MaxRetries + 1)
Running  == {"find", "save"}

Ops      == {"register", "login"}

WithEmail(e)  == {u \in users : u.email = e}
HasAccount(c) == \E u \in WithEmail(client[c].email) : u.owner = c

\* Waiting for the answer of this very attempt of its registration.
Awaits(c, n) ==
  client[c].phase = "waiting" /\ client[c].op = "register" /\ client[c].attempt = n

Init ==
  /\ users = {}
  /\ client = [c \in Clients |-> [op |-> "none", email |-> None, phase |-> "idle",
                                  attempt |-> 0, answer |-> None]]
  /\ call = [c \in Clients |-> [n \in Attempts |-> "none"]]
  /\ told = [c \in Clients |-> None]
  /\ lost = [c \in Clients |-> 0]
  /\ faults = 0

-------------------------------------------------------------------------------
(* The gateway *)

Concluded(c, a) ==
  /\ client' = [client EXCEPT ![c].phase = "idle", ![c].attempt = 0, ![c].answer = a]
  /\ told' = IF client[c].op = "register" THEN [told EXCEPT ![c] = a] ELSE told

\* An attempt failed: the next one follows its delay, or the fallback's plain
\* error, which AuthService answers with 503.
FailedAttempt(c) ==
  IF client[c].attempt <= MaxRetries
  THEN client' = [client EXCEPT ![c].phase = "backoff"] /\ told' = told
  ELSE Concluded(c, "unavailable")

\* A client registers once, and logs in with the same e-mail and password when
\* its registration has been answered, also while calls of it that the gateway
\* gave up are still running.  The circuit may refuse.
Ask(c, op, e) ==
  /\ client[c].phase = "idle"
  /\ \/ op = "register" /\ client[c].op = "none"
     \/ op = "login" /\ client[c].op = "register" /\ client[c].email = e
  /\ \/ /\ client' = [client EXCEPT ![c] =
             [op |-> op, email |-> e, phase |-> "waiting", attempt |-> 1, answer |-> None]]
        /\ call' = IF op = "register" THEN [call EXCEPT ![c][1] = "find"] ELSE call
        /\ told' = told
     \/ /\ client' = [client EXCEPT ![c] =
             [op |-> op, email |-> e, phase |-> "idle", attempt |-> 0, answer |-> "unavailable"]]
        /\ call' = call
        /\ told' = IF op = "register" THEN [told EXCEPT ![c] = "unavailable"] ELSE told
  /\ lost' = [lost EXCEPT ![c] = 0]
  /\ UNCHANGED <<users, faults>>

TimesOut(c) ==
  /\ client[c].phase = "waiting"
  /\ FailedAttempt(c)
  /\ lost' = IF client[c].op = "register" THEN [lost EXCEPT ![c] = @ + 1] ELSE lost
  /\ UNCHANGED <<users, call, faults>>

Retry(c) ==
  /\ client[c].phase = "backoff"
  /\ LET n == client[c].attempt + 1 IN
     /\ client' = [client EXCEPT ![c].phase = "waiting", ![c].attempt = n]
     /\ call' = IF client[c].op = "register" THEN [call EXCEPT ![c][n] = "find"] ELSE call
  /\ UNCHANGED <<users, told, lost, faults>>

-------------------------------------------------------------------------------
(* users-service *)

\* The handler of attempt n ends with answer a, which the gateway takes if it
\* still waits for it: a 4xx as it is, a 5xx as a failed attempt.
Ends(c, n, a) ==
  /\ call' = [call EXCEPT ![c][n] = "none"]
  /\ IF ~ Awaits(c, n) THEN UNCHANGED <<client, told>>
     ELSE IF a = "error" THEN FailedAttempt(c)
     ELSE Concluded(c, a)

\* Mutant: the e-mail is not looked up.
FindNothing(c, n) ==
  /\ call[c][n] = "find"
  /\ call' = [call EXCEPT ![c][n] = "save"]
  /\ UNCHANGED <<users, client, told, lost, faults>>

\* The e-mail is looked up; hashing the password follows.
Find(c, n) ==
  /\ call[c][n] = "find"
  /\ IF WithEmail(client[c].email) # {}
     THEN Ends(c, n, "conflict")
     ELSE call' = [call EXCEPT ![c][n] = "save"] /\ UNCHANGED <<client, told>>
  /\ UNCHANGED <<users, lost, faults>>

NewUser(c, n) == [email |-> client[c].email, owner |-> c, attempt |-> n]

\* Mutant: the column is not unique.
SaveAnyway(c, n) ==
  /\ call[c][n] = "save"
  /\ users' = users \cup {NewUser(c, n)}
  /\ Ends(c, n, "created")
  /\ UNCHANGED <<lost, faults>>

\* Mutant: the row of the e-mail is replaced.
SaveOver(c, n) ==
  /\ call[c][n] = "save"
  /\ users' = (users \ WithEmail(client[c].email)) \cup {NewUser(c, n)}
  /\ Ends(c, n, "created")
  /\ UNCHANGED <<lost, faults>>

\* Mutant: the response cannot be built once the row is inserted.
SaveUnanswered(c, n) ==
  /\ call[c][n] = "save"
  /\ users' = IF WithEmail(client[c].email) = {} THEN users \cup {NewUser(c, n)} ELSE users
  /\ Ends(c, n, "error")
  /\ UNCHANGED <<lost, faults>>

\* The insert, or the violation of the unique column, which is a 500.
Save(c, n) ==
  /\ call[c][n] = "save"
  /\ IF WithEmail(client[c].email) = {}
     THEN users' = users \cup {NewUser(c, n)} /\ Ends(c, n, "created")
     ELSE users' = users /\ Ends(c, n, "error")
  /\ UNCHANGED <<lost, faults>>

\* The user is looked up and the password compared.  A login only reads: a call
\* of it that the gateway gave up is not followed further, and one that fails
\* is to the gateway what a timeout is.
LoginAnswered(c) ==
  /\ client[c].phase = "waiting" /\ client[c].op = "login"
  /\ Concluded(c, IF HasAccount(c) THEN "token" ELSE "unauthorized")
  /\ UNCHANGED <<users, call, lost, faults>>

\* A database call fails, possibly after the row was inserted.
DatabaseError(c, n) ==
  /\ call[c][n] \in Running /\ faults < MaxFaults
  /\ \/ users' = users
     \/ /\ call[c][n] = "save" /\ WithEmail(client[c].email) = {}
        /\ users' = users \cup {NewUser(c, n)}
  /\ Ends(c, n, "error")
  /\ lost' = IF Awaits(c, n) THEN [lost EXCEPT ![c] = @ + 1] ELSE lost
  /\ faults' = faults + 1

\* The process dies: every call it runs ends, and the gateway sees its
\* connections closed.
Crash ==
  /\ faults < MaxFaults
  /\ faults' = faults + 1
  /\ call' = [c \in Clients |-> [n \in Attempts |->
                IF call[c][n] \in Running THEN "none" ELSE call[c][n]]]
  /\ LET Cut  == {c \in Clients : client[c].phase = "waiting"}
         Last == {c \in Cut : client[c].attempt > MaxRetries}
     IN
     /\ client' = [c \in Clients |->
          IF c \in Last THEN [client[c] EXCEPT !.phase = "idle", !.attempt = 0, !.answer = "unavailable"]
          ELSE IF c \in Cut THEN [client[c] EXCEPT !.phase = "backoff"] ELSE client[c]]
     /\ told' = [c \in Clients |->
          IF c \in Last /\ client[c].op = "register" THEN "unavailable" ELSE told[c]]
     /\ lost' = [c \in Clients |-> IF c \in Cut /\ client[c].op = "register" THEN lost[c] + 1 ELSE lost[c]]
  /\ users' = users

-------------------------------------------------------------------------------
Handle(c, n) == Find(c, n) \/ Save(c, n)
Advance(c)   == TimesOut(c) \/ Retry(c) \/ LoginAnswered(c)

Next ==
  \/ \E c \in Clients, op \in Ops, e \in Emails : Ask(c, op, e)
  \/ \E c \in Clients : Advance(c)
  \/ \E c \in Clients, n \in Attempts : Handle(c, n) \/ DatabaseError(c, n)
  \/ Crash

Spec == Init /\ [][Next]_vars

-------------------------------------------------------------------------------
(* Properties *)

Told    == {"created", "conflict", "unavailable"}
Answers == Told \cup {"token", "unauthorized"}

ClientRecord == [op : Ops \cup {"none"}, email : Emails \cup {None},
                 phase : {"idle", "waiting", "backoff"}, attempt : 0..(MaxRetries + 1),
                 answer : Answers \cup {None}]

TypeOK ==
  /\ users \subseteq [email : Emails, owner : Clients, attempt : Attempts]
  /\ client \in [Clients -> ClientRecord]
  /\ call \in [Clients -> [Attempts -> {"none", "find", "save"}]]
  /\ told \in [Clients -> Told \cup {None}]
  /\ lost \in [Clients -> Nat]
  /\ faults \in 0..MaxFaults

\* However registrations and their abandoned attempts interleave, an e-mail has
\* one account: no two clients share it, nor do two attempts of one client store
\* it twice.
OneAccountPerEmail == \A u, v \in users : u.email = v.email => u = v

\* What a client was told is true of the table, and stays so: "created" and a
\* token are for the owner of the account, and nobody who was told that the
\* account was created is told later that the credentials are wrong.
AnswersAreTrue ==
  \A c \in Clients :
    /\ told[c] = "created" \/ client[c].answer = "token" => HasAccount(c)
    /\ client[c].answer = "unauthorized" => told[c] # "created"

\* A conflict is answered of an account that exists; of the client's own only
\* when an attempt of the same registration was lost after it had stored it.
ConflictExplained ==
  \A c \in Clients : told[c] = "conflict" =>
    /\ WithEmail(client[c].email) # {}
    /\ (client[c].op = "register" /\ HasAccount(c)) => lost[c] > 0

\* Losing the race for an e-mail costs a registration one attempt: it is not
\* repeated further unless attempts time out or meet a fault.
RaceCostsOneAttempt ==
  \A c \in Clients : client[c].op = "register" => client[c].attempt <= 2 + lost[c]
===============================================================================
