-------------------------- MODULE RegistrationProofs --------------------------
(***************************************************************************)
(* Proofs about Registration for any clients, e-mails, retries and faults. *)
(***************************************************************************)
EXTENDS Registration, TLAPS

-------------------------------------------------------------------------------
(* Types *)

Phased(c) ==
  /\ client[c].phase = "idle" => client[c].attempt = 0
  /\ client[c].phase = "waiting" => client[c].attempt \in Attempts
  /\ client[c].phase = "backoff" => client[c].attempt \in 1..MaxRetries
  /\ client[c].op # "none" => client[c].email \in Emails
  /\ client[c].op = "none" => client[c].phase = "idle"

Types == TypeOK /\ \A c \in Clients : Phased(c)

\* A step of c alone leaves the record of every other client as it is, and keeps
\* what c asked for.
OnlyClient(c) ==
  /\ client' \in [Clients -> ClientRecord] /\ told' \in [Clients -> Told \cup {None}]
  /\ \A j \in Clients \ {c} : client'[j] = client[j] /\ told'[j] = told[j]

SameRequest(c) ==
  OnlyClient(c) /\ client'[c].op = client[c].op /\ client'[c].email = client[c].email

ConcludedAs(c, a) ==
  /\ SameRequest(c) /\ client'[c].phase = "idle" /\ client'[c].attempt = 0
  /\ client'[c].answer = a
  /\ told'[c] = IF client[c].op = "register" THEN a ELSE told[c]

BacksOff(c) ==
  /\ SameRequest(c) /\ client'[c].phase = "backoff" /\ client[c].attempt <= MaxRetries
  /\ client'[c].attempt = client[c].attempt /\ client'[c].answer = client[c].answer
  /\ told'[c] = told[c]

\* What concluding does to a client.
LEMMA ConcludedForm ==
  ASSUME Types, NEW c \in Clients, NEW a \in Answers, Concluded(c, a),
         client[c].op = "register" => a \in Told
  PROVE  ConcludedAs(c, a)
<1> DEFINE row == [client[c] EXCEPT !.phase = "idle", !.attempt = 0, !.answer = a]
<1>1. client[c] \in ClientRecord /\ client \in [Clients -> ClientRecord]
      /\ told \in [Clients -> Told \cup {None}]
  BY DEF Types, TypeOK
<1>2. 0 \in 0..(MaxRetries + 1)  BY RegistrationAssumption
<1>3. /\ row \in ClientRecord /\ row.op = client[c].op /\ row.email = client[c].email
      /\ row.phase = "idle" /\ row.attempt = 0 /\ row.answer = a
  BY <1>1, <1>2 DEF ClientRecord
<1>4. client' = [client EXCEPT ![c] = row]  BY DEF Concluded
<1>5. told' = IF client[c].op = "register" THEN [told EXCEPT ![c] = a] ELSE told
  BY DEF Concluded
<1> HIDE DEF row
<1>6. client' \in [Clients -> ClientRecord] /\ client'[c] = row
      /\ \A j \in Clients \ {c} : client'[j] = client[j]
  BY <1>1, <1>3, <1>4
<1>7. /\ told' \in [Clients -> Told \cup {None}]
      /\ told'[c] = IF client[c].op = "register" THEN a ELSE told[c]
      /\ \A j \in Clients \ {c} : told'[j] = told[j]
  BY <1>1, <1>5
<1>8. QED  BY <1>3, <1>6, <1>7 DEF ConcludedAs, SameRequest, OnlyClient

\* A failed attempt backs off or is answered unavailable.
LEMMA FailedForm ==
  ASSUME Types, NEW c \in Clients, client[c].phase = "waiting", FailedAttempt(c)
  PROVE  BacksOff(c) \/ ConcludedAs(c, "unavailable")
<1>1. CASE client[c].attempt <= MaxRetries
  <2> DEFINE row == [client[c] EXCEPT !.phase = "backoff"]
  <2>1. client[c] \in ClientRecord /\ client \in [Clients -> ClientRecord]
        /\ told \in [Clients -> Told \cup {None}]
    BY DEF Types, TypeOK
  <2>2. /\ row \in ClientRecord /\ row.op = client[c].op /\ row.email = client[c].email
        /\ row.phase = "backoff" /\ row.attempt = client[c].attempt
        /\ row.answer = client[c].answer
    BY <2>1 DEF ClientRecord
  <2>3. client' = [client EXCEPT ![c] = row] /\ told' = told  BY <1>1 DEF FailedAttempt
  <2> HIDE DEF row
  <2>4. client' \in [Clients -> ClientRecord] /\ client'[c] = row
        /\ \A j \in Clients \ {c} : client'[j] = client[j]
    BY <2>1, <2>2, <2>3
  <2>5. QED  BY <1>1, <2>1, <2>2, <2>3, <2>4 DEF BacksOff, SameRequest, OnlyClient
<1>2. CASE ~ (client[c].attempt <= MaxRetries)
  <2>1. Concluded(c, "unavailable")  BY <1>2 DEF FailedAttempt
  <2>2. QED  BY <2>1, ConcludedForm DEF Answers, Told
<1>3. QED  BY <1>1, <1>2

\* Where one call of c is set to v.
CallIs(c, n, v) ==
  /\ call' \in [Clients -> [Attempts -> {"none", "find", "save"}]]
  /\ call'[c][n] = v
  /\ \A j \in Clients, i \in Attempts : j # c \/ i # n => call'[j][i] = call[j][i]

\* What a new call is.
LEMMA CallForm ==
  ASSUME Types, NEW c \in Clients, NEW n \in Attempts, NEW v \in {"none", "find", "save"},
         call' = [call EXCEPT ![c][n] = v]
  PROVE  CallIs(c, n, v)
<1>1. call \in [Clients -> [Attempts -> {"none", "find", "save"}]]  BY DEF Types, TypeOK
<1>2. QED  BY <1>1 DEF CallIs

\* What a call that ends leaves.
LEMMA EndsForm ==
  ASSUME Types, NEW c \in Clients, NEW n \in Attempts,
         NEW a \in {"created", "conflict", "error"}, Ends(c, n, a)
  PROVE  /\ CallIs(c, n, "none")
         /\ \/ ~ Awaits(c, n) /\ UNCHANGED <<client, told>>
            \/ Awaits(c, n) /\ a # "error" /\ ConcludedAs(c, a)
            \/ Awaits(c, n) /\ a = "error" /\ (BacksOff(c) \/ ConcludedAs(c, "unavailable"))
<1>1. CallIs(c, n, "none")  BY CallForm DEF Ends
<1>2. CASE Awaits(c, n) /\ a = "error"
  BY <1>1, <1>2, FailedForm DEF Ends, Awaits
<1>3. CASE Awaits(c, n) /\ a # "error"
  BY <1>1, <1>3, ConcludedForm DEF Ends, Answers, Told
<1>4. QED  BY <1>1, <1>2, <1>3 DEF Ends

-------------------------------------------------------------------------------
(* The invariant *)

\* Who asked for nothing has no account and no call.
Untouched(c) ==
  client[c].op = "none" =>
    /\ client[c].answer = None /\ told[c] = None
    /\ \A n \in Attempts : call[c][n] = "none"
    /\ \A u \in users : u.owner # c

\* What was told, and when.
AnswersInv(c) ==
  /\ client[c].answer \in {"token", "unauthorized"} => client[c].op = "login"
  /\ client[c].op = "register" /\ client[c].phase # "idle" =>
       told[c] = None /\ client[c].answer = None
  /\ told[c] = "created" \/ client[c].answer = "token" => HasAccount(c)
  /\ client[c].answer = "unauthorized" => told[c] # "created"
  /\ told[c] = "conflict" => WithEmail(client[c].email) # {}

\* Until an attempt of a registration is lost, only the awaited one runs, and
\* the account is stored with its answer.
LossInv(c) ==
  client[c].op = "register" /\ lost[c] = 0 =>
    /\ HasAccount(c) => told[c] = "created"
    /\ \A n \in Attempts : call[c][n] \in Running => Awaits(c, n)

\* Attempts are lost, but for one that lost the race for the e-mail; the one that
\* follows it finds the account.
RaceInv(c) ==
  client[c].op = "register" =>
    /\ client[c].phase = "waiting" =>
         \/ client[c].attempt <= 1 + lost[c]
         \/ /\ client[c].attempt <= 2 + lost[c] /\ WithEmail(client[c].email) # {}
            /\ call[c][client[c].attempt] # "save"
    /\ client[c].phase = "backoff" =>
         \/ client[c].attempt <= lost[c]
         \/ client[c].attempt <= 1 + lost[c] /\ WithEmail(client[c].email) # {}

ClientInv(c) == Untouched(c) /\ AnswersInv(c) /\ LossInv(c) /\ RaceInv(c)

RegistrationInv == Types /\ OneAccountPerEmail /\ \A c \in Clients : ClientInv(c)

-------------------------------------------------------------------------------
(* A step of one client *)

\* The table as it was, or with the account of c added to it.
Stores(c) ==
  /\ client[c].op # "none" /\ WithEmail(client[c].email) = {}
  /\ \E n \in Attempts : users' = users \cup {NewUser(c, n)}

Beside(c) ==
  /\ OnlyClient(c)
  /\ call' \in [Clients -> [Attempts -> {"none", "find", "save"}]]
  /\ \A j \in Clients \ {c}, i \in Attempts : call'[j][i] = call[j][i]
  /\ lost' \in [Clients -> Nat] /\ \A j \in Clients \ {c} : lost'[j] = lost[j]
  /\ users' = users \/ Stores(c)
  /\ faults' \in 0..MaxFaults

\* A step of one client keeps what holds of another.
LEMMA OthersKept ==
  ASSUME RegistrationInv, NEW c \in Clients, Beside(c), Phased(c)', ClientInv(c)'
  PROVE  RegistrationInv'
<1>1. Types  BY DEF RegistrationInv
<1>2. users' \subseteq [email : Emails, owner : Clients, attempt : Attempts]
  <2>1. CASE users' = users  BY <1>1, <2>1 DEF Types, TypeOK
  <2>2. CASE Stores(c)
    <3>1. client[c].email \in Emails  BY <1>1, <2>2 DEF Stores, Types, Phased
    <3>2. PICK n \in Attempts : users' = users \cup {NewUser(c, n)}  BY <2>2 DEF Stores
    <3>3. NewUser(c, n) \in [email : Emails, owner : Clients, attempt : Attempts]
      BY <3>1 DEF NewUser
    <3>4. QED  BY <1>1, <3>2, <3>3 DEF Types, TypeOK
  <2>3. QED  BY <2>1, <2>2 DEF Beside
<1>3. OneAccountPerEmail'
  <2>1. CASE Stores(c)
    <3>1. PICK n \in Attempts : users' = users \cup {NewUser(c, n)}  BY <2>1 DEF Stores
    <3>2. \A u \in users : u.email # NewUser(c, n).email
      BY <2>1 DEF Stores, WithEmail, NewUser
    <3>3. QED  BY <3>1, <3>2 DEF RegistrationInv, OneAccountPerEmail
  <2>2. QED  BY <2>1 DEF Beside, RegistrationInv, OneAccountPerEmail
<1>4. ASSUME NEW j \in Clients, j # c  PROVE Phased(j)' /\ ClientInv(j)'
  <2>1. /\ client'[j] = client[j] /\ told'[j] = told[j] /\ lost'[j] = lost[j]
        /\ \A i \in Attempts : call'[j][i] = call[j][i]
    BY <1>4 DEF Beside, OnlyClient
  <2>2. users \subseteq users' /\ \A u \in users' : u \in users \/ u.owner = c
    BY DEF Beside, Stores, NewUser
  <2>3. client'[j].email = client[j].email  BY <2>1
  <2>4. HasAccount(j)' <=> HasAccount(j)  BY <1>4, <2>2, <2>3 DEF HasAccount, WithEmail
  <2>5. WithEmail(client[j].email) # {} => WithEmail(client[j].email)' # {}
    BY <2>1, <2>2 DEF WithEmail
  <2>6. Phased(j)' /\ Phased(j) /\ ClientInv(j)  BY <1>1, <2>1 DEF Types, Phased, RegistrationInv
  <2>7. Untouched(j)'
    BY <1>4, <2>1, <2>2, <2>6 DEF ClientInv, Untouched
  <2>8. AnswersInv(j)'  BY <2>1, <2>4, <2>5, <2>6 DEF ClientInv, AnswersInv
  <2>9. LossInv(j)'  BY <2>1, <2>4, <2>6 DEF ClientInv, LossInv, Awaits
  <2>10. RaceInv(j)'  BY <2>1, <2>5, <2>6 DEF ClientInv, RaceInv, Phased
  <2>11. QED  BY <2>6, <2>7, <2>8, <2>9, <2>10 DEF ClientInv
<1>5. TypeOK'  BY <1>2 DEF Beside, OnlyClient, TypeOK
<1>6. QED  BY <1>3, <1>4, <1>5 DEF RegistrationInv, Types

\* The attempt c waited for is lost: to its client a loss, whatever was stored.
LEMMA LostStep ==
  ASSUME RegistrationInv, NEW c \in Clients, client[c].phase = "waiting",
         BacksOff(c) \/ ConcludedAs(c, "unavailable"),
         call' \in [Clients -> [Attempts -> {"none", "find", "save"}]],
         \A j \in Clients \ {c}, i \in Attempts : call'[j][i] = call[j][i],
         lost' \in [Clients -> Nat], \A j \in Clients \ {c} : lost'[j] = lost[j],
         lost'[c] = IF client[c].op = "register" THEN lost[c] + 1 ELSE lost[c],
         users' = users \/ Stores(c), faults' \in 0..MaxFaults
  PROVE  RegistrationInv'
<1>1. Types /\ ClientInv(c) /\ Phased(c) /\ MaxRetries \in Nat
  BY RegistrationAssumption DEF RegistrationInv, Types
<1>2. /\ SameRequest(c) /\ client[c].op # "none" /\ client[c].attempt \in Attempts
      /\ lost[c] \in Nat /\ None \notin Answers
  BY <1>1, RegistrationAssumption
  DEF BacksOff, ConcludedAs, Phased, Types, TypeOK, Answers, Told
<1>3. Beside(c)  BY <1>2 DEF Beside, SameRequest
<1>4. /\ HasAccount(c) => HasAccount(c)'
      /\ WithEmail(client[c].email) # {} => WithEmail(client[c].email)' # {}
  BY <1>2 DEF HasAccount, SameRequest, Stores, WithEmail
<1>5. Phased(c)'
  BY <1>1, <1>2 DEF BacksOff, ConcludedAs, Phased, SameRequest, Attempts
<1>6. Untouched(c)'  BY <1>2 DEF Untouched, SameRequest
<1>7. AnswersInv(c)'
  BY <1>1, <1>2, <1>4 DEF BacksOff, ConcludedAs, ClientInv, AnswersInv, SameRequest
<1>8. LossInv(c)'  BY <1>2 DEF LossInv, SameRequest
<1>9. RaceInv(c)'
  <2>1. CASE client[c].op = "register" /\ BacksOff(c)
    <3>1. \/ client[c].attempt <= 1 + lost[c]
          \/ client[c].attempt <= 2 + lost[c] /\ WithEmail(client[c].email) # {}
      BY <1>1, <2>1 DEF ClientInv, RaceInv
    <3>2. client[c].attempt \in Nat  BY <1>2 DEF Attempts
    <3>3. QED  BY <1>2, <1>4, <2>1, <3>1, <3>2 DEF BacksOff, RaceInv
  <2>2. CASE client[c].op # "register"  BY <1>2, <2>2 DEF SameRequest, RaceInv
  <2>3. CASE ConcludedAs(c, "unavailable")  BY <2>3 DEF ConcludedAs, RaceInv
  <2>4. QED  BY <2>1, <2>2, <2>3
<1>10. QED  BY <1>3, <1>5, <1>6, <1>7, <1>8, <1>9, OthersKept DEF ClientInv

\* A timeout keeps the invariant.
LEMMA TimesOutStep ==
  ASSUME RegistrationInv, NEW c \in Clients, TimesOut(c)
  PROVE  RegistrationInv'
<1>1. /\ client[c].phase = "waiting" /\ FailedAttempt(c)
      /\ UNCHANGED <<users, call, faults>> /\ Types
      /\ lost' = IF client[c].op = "register" THEN [lost EXCEPT ![c] = @ + 1] ELSE lost
  BY DEF TimesOut, RegistrationInv
<1>2. BacksOff(c) \/ ConcludedAs(c, "unavailable")  BY <1>1, FailedForm
<1>3. /\ lost' \in [Clients -> Nat] /\ \A j \in Clients \ {c} : lost'[j] = lost[j]
      /\ lost'[c] = IF client[c].op = "register" THEN lost[c] + 1 ELSE lost[c]
  BY <1>1 DEF Types, TypeOK
<1>4. call' \in [Clients -> [Attempts -> {"none", "find", "save"}]] /\ faults' \in 0..MaxFaults
  BY <1>1 DEF Types, TypeOK
<1>5. QED  BY <1>1, <1>2, <1>3, <1>4, LostStep

\* What the handler of an attempt does when nobody waits for it, or it fails.
LEMMA UnawaitedStep ==
  ASSUME RegistrationInv, NEW c \in Clients, NEW n \in Attempts, NEW v \in {"none", "save"},
         ~ Awaits(c, n), call[c][n] \in Running, UNCHANGED <<client, told, lost>>,
         CallIs(c, n, v), users' = users \/ Stores(c), faults' \in 0..MaxFaults
  PROVE  RegistrationInv'
<1>1. Types /\ ClientInv(c) /\ Phased(c)  BY DEF RegistrationInv, Types
<1>2. OnlyClient(c)  BY <1>1 DEF Types, TypeOK, OnlyClient
<1>3. Beside(c)  BY <1>1, <1>2 DEF Beside, CallIs, Types, TypeOK
<1>4. Phased(c)'  BY <1>1 DEF Phased
<1>5. client[c].op # "none"  BY <1>1 DEF ClientInv, Untouched, Running
<1>6. /\ HasAccount(c) => HasAccount(c)'
      /\ WithEmail(client[c].email) # {} => WithEmail(client[c].email)' # {}
  BY DEF HasAccount, Stores, WithEmail
<1>7. Untouched(c)'  BY <1>5 DEF Untouched
<1>8. AnswersInv(c)'  BY <1>1, <1>6 DEF ClientInv, AnswersInv
<1>9. LossInv(c)'  BY <1>1 DEF ClientInv, LossInv
<1>10. RaceInv(c)'
  <2>1. client[c].op = "register" /\ client[c].phase = "waiting" =>
          client[c].attempt \in Attempts /\ client[c].attempt # n
    BY <1>1 DEF Phased, Awaits
  <2>2. client[c].op = "register" /\ client[c].phase = "waiting" =>
          call'[c][client[c].attempt] = call[c][client[c].attempt]
    BY <2>1 DEF CallIs
  <2>3. QED  BY <1>1, <1>6, <2>2 DEF ClientInv, RaceInv
<1>11. QED  BY <1>3, <1>4, <1>7, <1>8, <1>9, <1>10, OthersKept DEF ClientInv

\* The answer of the attempt waited for ends the registration, or follows a lost
\* race for the e-mail; nothing of it is left running unless it lost an attempt.
LEMMA AwaitedStep ==
  ASSUME RegistrationInv, NEW c \in Clients, NEW n \in Attempts, Awaits(c, n),
         call[c][n] \in Running, CallIs(c, n, "none"), UNCHANGED <<lost, faults>>,
         \/ /\ ConcludedAs(c, "created") /\ Stores(c)
         \/ /\ ConcludedAs(c, "conflict") /\ WithEmail(client[c].email) # {} /\ users' = users
         \/ /\ BacksOff(c) \/ ConcludedAs(c, "unavailable")
            /\ call[c][n] = "save" /\ WithEmail(client[c].email) # {} /\ users' = users
  PROVE  RegistrationInv'
<1>1. Types /\ ClientInv(c) /\ Phased(c) /\ MaxRetries \in Nat
  BY RegistrationAssumption DEF RegistrationInv, Types
<1>2. /\ client[c].phase = "waiting" /\ client[c].op = "register" /\ client[c].attempt = n
      /\ SameRequest(c) /\ lost[c] \in Nat /\ None \notin Answers
      /\ faults \in 0..MaxFaults /\ lost \in [Clients -> Nat]
  BY <1>1, RegistrationAssumption
  DEF Awaits, BacksOff, ConcludedAs, Types, TypeOK, Answers, Told
<1>3. Beside(c)  BY <1>1, <1>2 DEF Beside, SameRequest, CallIs
<1>4. /\ client'[c].email = client[c].email
      /\ HasAccount(c)' => HasAccount(c) \/ Stores(c)
      /\ HasAccount(c) => HasAccount(c)'
      /\ Stores(c) => HasAccount(c)'
      /\ WithEmail(client[c].email) # {} => WithEmail(client[c].email)' # {}
  <2>1. client'[c].email = client[c].email /\ (users' = users \/ Stores(c))
    BY <1>2, <1>3 DEF SameRequest, Beside
  <2>2. users' = users => (HasAccount(c)' <=> HasAccount(c))
    BY <2>1 DEF HasAccount, WithEmail
  <2>3. Stores(c) => HasAccount(c)'
    <3>1. SUFFICES ASSUME Stores(c) PROVE HasAccount(c)'  OBVIOUS
    <3>2. PICK i \in Attempts : users' = users \cup {NewUser(c, i)}  BY <3>1 DEF Stores
    <3>3. /\ NewUser(c, i) \in users' /\ NewUser(c, i).email = client[c].email
          /\ NewUser(c, i).owner = c
      BY <3>2 DEF NewUser
    <3>4. QED  BY <2>1, <3>3 DEF HasAccount, WithEmail
  <2>4. WithEmail(client[c].email) # {} => WithEmail(client[c].email)' # {}
    BY <2>1 DEF WithEmail, Stores
  <2>5. QED  BY <2>1, <2>2, <2>3, <2>4
<1>5. Phased(c)'
  BY <1>1, <1>2 DEF BacksOff, ConcludedAs, Phased, SameRequest, Attempts
<1>6. Untouched(c)'  BY <1>2 DEF Untouched, SameRequest
<1>7. told[c] = None /\ client[c].answer = None  BY <1>1, <1>2 DEF ClientInv, AnswersInv
<1>8. AnswersInv(c)'
  BY <1>2, <1>4, <1>7 DEF BacksOff, ConcludedAs, AnswersInv, SameRequest, Answers, Told
<1>9. LossInv(c)'
  <2>1. SUFFICES ASSUME lost[c] = 0
                 PROVE  /\ HasAccount(c)' => told'[c] = "created"
                        /\ \A m \in Attempts : call'[c][m] \notin Running
    BY <1>2 DEF LossInv
  <2>2. ~ HasAccount(c)
    BY <1>1, <1>2, <1>7, <2>1 DEF ClientInv, LossInv, Answers, Told
  <2>3. HasAccount(c)' => told'[c] = "created"
    BY <1>2, <1>4, <2>2 DEF ConcludedAs, HasAccount, Stores
  <2>4. \A m \in Attempts : call[c][m] \in Running => m = n
    BY <1>1, <1>2, <2>1 DEF ClientInv, LossInv, Awaits
  <2>5. \A m \in Attempts : call'[c][m] \notin Running
    BY <2>4 DEF CallIs, Running
  <2>6. QED  BY <2>3, <2>5
<1>10. RaceInv(c)'
  <2>1. CASE BacksOff(c) /\ call[c][n] = "save" /\ WithEmail(client[c].email) # {}
    <3>1. client[c].attempt <= 1 + lost[c]
      BY <1>1, <1>2, <2>1 DEF ClientInv, RaceInv
    <3>2. QED  BY <1>2, <1>4, <2>1, <3>1 DEF BacksOff, RaceInv, SameRequest
  <2>2. CASE client'[c].phase = "idle"  BY <2>2 DEF RaceInv
  <2>3. QED  BY <2>1, <2>2 DEF ConcludedAs
<1>11. QED  BY <1>3, <1>5, <1>6, <1>8, <1>9, <1>10, OthersKept DEF ClientInv

\* Looking the e-mail up keeps the invariant.
LEMMA FindStep ==
  ASSUME RegistrationInv, NEW c \in Clients, NEW n \in Attempts, Find(c, n)
  PROVE  RegistrationInv'
<1>1. /\ call[c][n] = "find" /\ call[c][n] \in Running /\ Types
      /\ UNCHANGED <<users, lost, faults>> /\ faults' \in 0..MaxFaults
  BY DEF Find, Running, RegistrationInv, Types, TypeOK
<1>2. CASE WithEmail(client[c].email) # {}
  <2>1. Ends(c, n, "conflict")  BY <1>2 DEF Find
  <2>2. /\ CallIs(c, n, "none")
        /\ \/ ~ Awaits(c, n) /\ UNCHANGED <<client, told>>
           \/ Awaits(c, n) /\ ConcludedAs(c, "conflict")
    BY <1>1, <2>1, EndsForm
  <2>3. QED  BY <1>1, <1>2, <2>2, AwaitedStep, UnawaitedStep
<1>3. CASE WithEmail(client[c].email) = {}
  <2>1. call' = [call EXCEPT ![c][n] = "save"] /\ UNCHANGED <<client, told>>
    BY <1>3 DEF Find
  <2>2. CallIs(c, n, "save")  BY <1>1, <2>1, CallForm
  <2>3. CASE ~ Awaits(c, n)  BY <1>1, <2>1, <2>2, <2>3, UnawaitedStep
  <2>4. CASE Awaits(c, n)
    <3>1. ClientInv(c) /\ Phased(c)  BY DEF RegistrationInv, Types
    <3>2. Beside(c)
      BY <1>1, <2>1, <2>2 DEF Beside, OnlyClient, Types, TypeOK, CallIs
    <3>3. client[c].op = "register"  BY <2>4 DEF Awaits
    <3>4. Untouched(c)'  BY <2>1, <3>3 DEF Untouched
    <3>5. AnswersInv(c)'
      BY <1>1, <2>1, <3>1 DEF ClientInv, AnswersInv, HasAccount, WithEmail
    <3>6. LossInv(c)'
      BY <1>1, <2>1, <2>2, <2>4, <3>1 DEF ClientInv, LossInv, HasAccount, WithEmail, Awaits, CallIs
    <3>7. RaceInv(c)'
      BY <1>1, <1>3, <2>1, <3>1 DEF ClientInv, RaceInv, WithEmail
    <3>8. Phased(c)'  BY <2>1, <3>1 DEF Phased
    <3>9. QED  BY <3>2, <3>4, <3>5, <3>6, <3>7, <3>8, OthersKept DEF ClientInv
  <2>5. QED  BY <2>3, <2>4
<1>4. QED  BY <1>2, <1>3

\* Whoever has a call asked for something.
LEMMA CallersAsked ==
  ASSUME RegistrationInv, NEW c \in Clients, NEW n \in Attempts, call[c][n] \in Running
  PROVE  client[c].op # "none"
  BY DEF RegistrationInv, ClientInv, Untouched, Running

\* Saving the user keeps the invariant.
LEMMA SaveStep ==
  ASSUME RegistrationInv, NEW c \in Clients, NEW n \in Attempts, Save(c, n)
  PROVE  RegistrationInv'
<1>1. /\ call[c][n] = "save" /\ call[c][n] \in Running /\ Types
      /\ UNCHANGED <<lost, faults>> /\ faults' \in 0..MaxFaults
  BY DEF Save, Running, RegistrationInv, Types, TypeOK
<1>2. CASE WithEmail(client[c].email) = {}
  <2>1. Ends(c, n, "created") /\ Stores(c)
    BY <1>1, <1>2, CallersAsked DEF Save, Stores
  <2>2. /\ CallIs(c, n, "none")
        /\ \/ ~ Awaits(c, n) /\ UNCHANGED <<client, told>>
           \/ Awaits(c, n) /\ ConcludedAs(c, "created")
    BY <1>1, <2>1, EndsForm
  <2>3. QED  BY <1>1, <2>1, <2>2, AwaitedStep, UnawaitedStep
<1>3. CASE WithEmail(client[c].email) # {}
  <2>1. Ends(c, n, "error") /\ users' = users  BY <1>3 DEF Save
  <2>2. /\ CallIs(c, n, "none")
        /\ \/ ~ Awaits(c, n) /\ UNCHANGED <<client, told>>
           \/ Awaits(c, n) /\ (BacksOff(c) \/ ConcludedAs(c, "unavailable"))
    BY <1>1, <2>1, EndsForm
  <2>3. QED  BY <1>1, <1>3, <2>1, <2>2, AwaitedStep, UnawaitedStep
<1>4. QED  BY <1>2, <1>3

\* A database error keeps the invariant.
LEMMA DatabaseErrorStep ==
  ASSUME RegistrationInv, NEW c \in Clients, NEW n \in Attempts, DatabaseError(c, n)
  PROVE  RegistrationInv'
<1>1. Types /\ call[c][n] \in Running /\ client[c].op # "none"
  BY CallersAsked DEF DatabaseError, RegistrationInv
<1>2. users' = users \/ Stores(c)  BY <1>1 DEF DatabaseError, Stores
<1>3. faults' \in 0..MaxFaults
  BY <1>1, RegistrationAssumption DEF DatabaseError, Types, TypeOK
<1>4. Ends(c, n, "error") /\ lost' = IF Awaits(c, n) THEN [lost EXCEPT ![c] = @ + 1] ELSE lost
  BY DEF DatabaseError
<1>5. /\ CallIs(c, n, "none")
      /\ \/ ~ Awaits(c, n) /\ UNCHANGED <<client, told>>
         \/ Awaits(c, n) /\ (BacksOff(c) \/ ConcludedAs(c, "unavailable"))
  BY <1>1, <1>4, EndsForm
<1>6. CASE Awaits(c, n)
  <2>1. client[c].phase = "waiting" /\ client[c].op = "register"  BY <1>6 DEF Awaits
  <2>2. /\ lost' \in [Clients -> Nat] /\ \A j \in Clients \ {c} : lost'[j] = lost[j]
        /\ lost'[c] = IF client[c].op = "register" THEN lost[c] + 1 ELSE lost[c]
    BY <1>1, <1>4, <1>6, <2>1 DEF Types, TypeOK
  <2>3. QED  BY <1>2, <1>3, <1>5, <1>6, <2>1, <2>2, LostStep DEF CallIs
<1>7. CASE ~ Awaits(c, n)
  BY <1>1, <1>2, <1>3, <1>4, <1>5, <1>7, UnawaitedStep
<1>8. QED  BY <1>6, <1>7

\* A login keeps the invariant.
LEMMA LoginStep ==
  ASSUME RegistrationInv, NEW c \in Clients, LoginAnswered(c)
  PROVE  RegistrationInv'
<1> DEFINE a == IF HasAccount(c) THEN "token" ELSE "unauthorized"
<1>1. /\ client[c].op = "login" /\ Concluded(c, a) /\ UNCHANGED <<users, call, lost, faults>>
      /\ Types /\ ClientInv(c)
  BY DEF LoginAnswered, RegistrationInv
<1>2. ConcludedAs(c, a)  BY <1>1, ConcludedForm DEF Answers
<1>3. Beside(c)
  BY <1>1, <1>2 DEF Beside, ConcludedAs, SameRequest, Types, TypeOK
<1>4. Phased(c)'
  BY <1>1, <1>2 DEF ConcludedAs, SameRequest, Phased, Types
<1>5. /\ told'[c] = told[c] /\ (HasAccount(c)' <=> HasAccount(c)) /\ client'[c].op = "login"
      /\ client'[c].answer = a /\ client'[c].email = client[c].email
  BY <1>1, <1>2 DEF ConcludedAs, SameRequest, HasAccount, WithEmail
<1>6. AnswersInv(c)'
  BY <1>1, <1>5 DEF ClientInv, AnswersInv, WithEmail
<1>7. Untouched(c)' /\ LossInv(c)' /\ RaceInv(c)'
  BY <1>5 DEF Untouched, LossInv, RaceInv
<1>8. QED  BY <1>3, <1>4, <1>6, <1>7, OthersKept DEF ClientInv

\* A new request keeps the invariant.
LEMMA AskStep ==
  ASSUME RegistrationInv, NEW c \in Clients, NEW op \in Ops, NEW e \in Emails, Ask(c, op, e)
  PROVE  RegistrationInv'
<1> DEFINE sent    == [op |-> op, email |-> e, phase |-> "waiting", attempt |-> 1, answer |-> None]
           refused == [op |-> op, email |-> e, phase |-> "idle", attempt |-> 0,
                       answer |-> "unavailable"]
<1>1. /\ Types /\ ClientInv(c) /\ client[c].phase = "idle" /\ op # "none"
      /\ UNCHANGED <<users, faults>> /\ lost' = [lost EXCEPT ![c] = 0]
      /\ \/ op = "register" /\ client[c].op = "none"
         \/ op = "login" /\ client[c].op = "register" /\ client[c].email = e
  BY DEF Ask, RegistrationInv, Ops
<1>2. MaxRetries \in Nat /\ None \notin Answers
  BY RegistrationAssumption DEF Answers, Told
<1>3. sent \in ClientRecord /\ refused \in ClientRecord /\ 1 \in Attempts
  BY <1>2 DEF ClientRecord, Answers, Told, Attempts
<1>4. lost' \in [Clients -> Nat] /\ lost'[c] = 0 /\ \A j \in Clients \ {c} : lost'[j] = lost[j]
  BY <1>1 DEF Types, TypeOK
<1>5. op = "register" =>
        /\ client[c].answer = None /\ told[c] = None /\ \A n \in Attempts : call[c][n] = "none"
        /\ \A u \in users : u.owner # c
  BY <1>1 DEF ClientInv, Untouched, Ops
<1>6. CASE /\ client' = [client EXCEPT ![c] = sent] /\ told' = told
           /\ call' = IF op = "register" THEN [call EXCEPT ![c][1] = "find"] ELSE call
  <2>1. /\ client' \in [Clients -> ClientRecord] /\ client'[c] = sent
        /\ \A j \in Clients \ {c} : client'[j] = client[j]
    BY <1>1, <1>3, <1>6 DEF Types, TypeOK
  <2>2. op = "register" => CallIs(c, 1, "find")  BY <1>1, <1>3, <1>6, CallForm
  <2>3. Beside(c)
    BY <1>1, <1>4, <1>6, <2>1, <2>2 DEF Beside, OnlyClient, CallIs, Types, TypeOK
  <2>4. /\ client'[c].op = op /\ client'[c].email = e /\ client'[c].phase = "waiting"
        /\ client'[c].attempt = 1 /\ client'[c].answer = None /\ told'[c] = told[c]
    BY <1>6, <2>1
  <2>5. Phased(c)'  BY <1>1, <1>3, <2>4 DEF Phased
  <2>6. Untouched(c)'  BY <1>1, <2>4 DEF Untouched
  <2>7. AnswersInv(c)'
    <3>1. CASE op = "register"
      BY <1>2, <1>5, <2>4, <3>1 DEF AnswersInv, Answers, Told
    <3>2. CASE op = "login"
      <4>1. (HasAccount(c)' <=> HasAccount(c)) /\ client[c].email = e
        BY <1>1, <2>4, <3>2 DEF HasAccount, WithEmail
      <4>2. QED
        BY <1>1, <1>2, <2>4, <3>2, <4>1 DEF ClientInv, AnswersInv, WithEmail, Answers, Told
    <3>3. QED  BY <3>1, <3>2 DEF Ops
  <2>8. LossInv(c)'
    <3>1. CASE op = "register"
      <4>1. ~ HasAccount(c)'  BY <1>1, <1>5, <3>1 DEF HasAccount, WithEmail
      <4>2. \A n \in Attempts : call'[c][n] \in Running => Awaits(c, n)'
        BY <1>5, <2>2, <2>4, <3>1 DEF CallIs, Running, Awaits
      <4>3. QED  BY <4>1, <4>2 DEF LossInv
    <3>2. CASE op # "register"  BY <2>4, <3>2 DEF LossInv
    <3>3. QED  BY <3>1, <3>2
  <2>9. RaceInv(c)'  BY <1>4, <2>4 DEF RaceInv
  <2>10. QED  BY <2>3, <2>5, <2>6, <2>7, <2>8, <2>9, OthersKept DEF ClientInv
<1>7. CASE /\ client' = [client EXCEPT ![c] = refused] /\ call' = call
           /\ told' = IF op = "register" THEN [told EXCEPT ![c] = "unavailable"] ELSE told
  <2>1. /\ client' \in [Clients -> ClientRecord] /\ client'[c] = refused
        /\ \A j \in Clients \ {c} : client'[j] = client[j]
    BY <1>1, <1>3, <1>7 DEF Types, TypeOK
  <2>2. /\ told' \in [Clients -> Told \cup {None}]
        /\ told'[c] = IF op = "register" THEN "unavailable" ELSE told[c]
        /\ \A j \in Clients \ {c} : told'[j] = told[j]
    BY <1>1, <1>7 DEF Types, TypeOK, Told
  <2>3. Beside(c)
    BY <1>1, <1>4, <1>7, <2>1, <2>2 DEF Beside, OnlyClient, Types, TypeOK
  <2>4. /\ client'[c].op = op /\ client'[c].email = e /\ client'[c].phase = "idle"
        /\ client'[c].attempt = 0 /\ client'[c].answer = "unavailable"
    BY <2>1
  <2>5. Phased(c)'  BY <1>1, <2>4 DEF Phased
  <2>6. Untouched(c)'  BY <1>1, <2>4 DEF Untouched
  <2>7. AnswersInv(c)'
    <3>1. CASE op = "register"  BY <2>2, <2>4, <3>1 DEF AnswersInv
    <3>2. CASE op = "login"
      <4>1. (HasAccount(c)' <=> HasAccount(c)) /\ client[c].email = e
        BY <1>1, <2>4, <3>2 DEF HasAccount, WithEmail
      <4>2. QED
        BY <1>1, <2>2, <2>4, <3>2, <4>1 DEF ClientInv, AnswersInv, WithEmail
    <3>3. QED  BY <3>1, <3>2 DEF Ops
  <2>8. LossInv(c)'
    <3>1. CASE op = "register"
      <4>1. ~ HasAccount(c)'  BY <1>1, <1>5, <3>1 DEF HasAccount, WithEmail
      <4>2. \A n \in Attempts : call'[c][n] \notin Running
        BY <1>5, <1>7, <3>1 DEF Running
      <4>3. QED  BY <4>1, <4>2 DEF LossInv
    <3>2. CASE op # "register"  BY <2>4, <3>2 DEF LossInv
    <3>3. QED  BY <3>1, <3>2
  <2>9. RaceInv(c)'  BY <2>4 DEF RaceInv
  <2>10. QED  BY <2>3, <2>5, <2>6, <2>7, <2>8, <2>9, OthersKept DEF ClientInv
<1>8. QED  BY <1>6, <1>7 DEF Ask

\* A retry keeps the invariant.
LEMMA RetryStep ==
  ASSUME RegistrationInv, NEW c \in Clients, Retry(c)
  PROVE  RegistrationInv'
<1> DEFINE n   == client[c].attempt + 1
           row == [client[c] EXCEPT !.phase = "waiting", !.attempt = n]
<1>1. /\ Types /\ ClientInv(c) /\ Phased(c) /\ client[c].phase = "backoff"
      /\ UNCHANGED <<users, told, lost, faults>>
      /\ client' = [client EXCEPT ![c] = row]
      /\ call' = IF client[c].op = "register" THEN [call EXCEPT ![c][n] = "find"] ELSE call
  BY DEF Retry, RegistrationInv, Types
<1>2. MaxRetries \in Nat /\ None \notin Answers
  BY RegistrationAssumption DEF Answers, Told
<1>3. n \in Attempts /\ n \in 0..(MaxRetries + 1) /\ client[c].op # "none"
      /\ client[c].attempt \in Nat /\ lost[c] \in Nat
  BY <1>1, <1>2 DEF Phased, Attempts, Types, TypeOK
<1>4. /\ row \in ClientRecord /\ row.op = client[c].op /\ row.email = client[c].email
      /\ row.phase = "waiting" /\ row.attempt = n /\ row.answer = client[c].answer
  BY <1>1, <1>3 DEF Types, TypeOK, ClientRecord
<1> HIDE DEF row
<1>5. /\ client' \in [Clients -> ClientRecord] /\ client'[c] = row
      /\ \A j \in Clients \ {c} : client'[j] = client[j]
  BY <1>1, <1>4 DEF Types, TypeOK
<1>6. client[c].op = "register" => CallIs(c, n, "find")  BY <1>1, <1>3, CallForm
<1>7. Beside(c)
  BY <1>1, <1>5, <1>6 DEF Beside, OnlyClient, CallIs, Types, TypeOK
<1>8. Phased(c)'  BY <1>1, <1>3, <1>4, <1>5 DEF Phased
<1>9. HasAccount(c)' <=> HasAccount(c)  BY <1>1, <1>4, <1>5 DEF HasAccount, WithEmail
<1>10. Untouched(c)'  BY <1>3, <1>4, <1>5 DEF Untouched
<1>11. AnswersInv(c)'
  BY <1>1, <1>4, <1>5, <1>9 DEF ClientInv, AnswersInv, WithEmail
<1>12. LossInv(c)'
  <2>1. SUFFICES ASSUME client[c].op = "register", lost[c] = 0
                 PROVE  /\ HasAccount(c) => told[c] = "created"
                        /\ \A m \in Attempts : call'[c][m] \in Running => Awaits(c, m)'
    BY <1>1, <1>4, <1>5, <1>9 DEF LossInv
  <2>2. \A m \in Attempts : call[c][m] \notin Running
    BY <1>1, <2>1 DEF ClientInv, LossInv, Awaits
  <2>3. \A m \in Attempts : call'[c][m] \in Running => m = n
    BY <1>6, <2>1, <2>2 DEF CallIs
  <2>4. client'[c].phase = "waiting" /\ client'[c].op = "register" /\ client'[c].attempt = n
    BY <1>4, <1>5, <2>1
  <2>5. \A m \in Attempts : call'[c][m] \in Running => Awaits(c, m)'
    <3> HIDE DEF n
    <3>1. QED  BY <2>3, <2>4 DEF Awaits
  <2>6. QED  BY <1>1, <2>1, <2>5 DEF ClientInv, LossInv
<1>13. RaceInv(c)'
  <2>1. SUFFICES ASSUME client[c].op = "register"
                 PROVE  \/ n <= 1 + lost[c]
                        \/ /\ n <= 2 + lost[c] /\ WithEmail(client[c].email) # {}
                           /\ call'[c][n] # "save"
    BY <1>1, <1>4, <1>5 DEF RaceInv, WithEmail
  <2>2. call'[c][n] # "save"  BY <1>6, <2>1 DEF CallIs
  <2>3. QED  BY <1>1, <1>3, <2>1, <2>2 DEF ClientInv, RaceInv
<1>14. QED  BY <1>7, <1>8, <1>10, <1>11, <1>12, <1>13, OthersKept DEF ClientInv

\* Every call ends; who waited lost its attempt.
LEMMA CrashStep ==
  ASSUME RegistrationInv, Crash
  PROVE  RegistrationInv'
<1> DEFINE Cut  == {c \in Clients : client[c].phase = "waiting"}
           Last == {c \in Cut : client[c].attempt > MaxRetries}
<1>1. Types /\ OneAccountPerEmail /\ users' = users /\ MaxRetries \in Nat /\ MaxFaults \in Nat
      /\ faults' \in 0..MaxFaults /\ None \notin Answers
  <2>1. Types /\ OneAccountPerEmail  BY DEF RegistrationInv
  <2>2. users' = users /\ faults < MaxFaults /\ faults' = faults + 1  BY DEF Crash
  <2>3. faults \in 0..MaxFaults  BY <2>1 DEF Types, TypeOK
  <2>4. MaxRetries \in Nat /\ MaxFaults \in Nat /\ None \notin Answers
    BY RegistrationAssumption DEF Answers, Told
  <2>5. faults' \in 0..MaxFaults  BY <2>2, <2>3, <2>4
  <2>6. QED  BY <2>1, <2>2, <2>4, <2>5
<1>2. \A c \in Clients :
        client'[c] = IF c \in Last
                     THEN [client[c] EXCEPT !.phase = "idle", !.attempt = 0,
                                            !.answer = "unavailable"]
                     ELSE IF c \in Cut THEN [client[c] EXCEPT !.phase = "backoff"]
                     ELSE client[c]
  BY DEF Crash
<1>3. \A c \in Clients :
        told'[c] = IF c \in Last /\ client[c].op = "register" THEN "unavailable" ELSE told[c]
  BY DEF Crash
<1>4. \A c \in Clients :
        lost'[c] = IF c \in Cut /\ client[c].op = "register" THEN lost[c] + 1 ELSE lost[c]
  BY DEF Crash
<1>5. \A c \in Clients, n \in Attempts :
        call'[c][n] = IF call[c][n] \in Running THEN "none" ELSE call[c][n]
  BY DEF Crash
<1>6. \A c \in Clients : c \in Cut <=> client[c].phase = "waiting"  OBVIOUS
<1>7. \A c \in Clients : c \in Last <=> c \in Cut /\ client[c].attempt > MaxRetries  OBVIOUS
<1> HIDE DEF Cut, Last
<1>8. ASSUME NEW c \in Clients
      PROVE  /\ client'[c] \in ClientRecord /\ told'[c] \in Told \cup {None} /\ lost'[c] \in Nat
             /\ client'[c].op = client[c].op /\ client'[c].email = client[c].email
             /\ client[c].op # "register" => told'[c] = told[c]
             /\ \/ /\ client[c].phase # "waiting" /\ client'[c] = client[c]
                   /\ told'[c] = told[c] /\ lost'[c] = lost[c]
                \/ /\ client[c].phase = "waiting" /\ client'[c].phase = "backoff"
                   /\ client[c].attempt <= MaxRetries
                   /\ client'[c].attempt = client[c].attempt
                   /\ client'[c].answer = client[c].answer /\ told'[c] = told[c]
                   /\ client[c].op = "register" => lost'[c] = lost[c] + 1
                \/ /\ client[c].phase = "waiting" /\ client'[c].phase = "idle"
                   /\ client'[c].attempt = 0 /\ client'[c].answer = "unavailable"
                   /\ client[c].op = "register" =>
                        told'[c] = "unavailable" /\ lost'[c] = lost[c] + 1
  <2>1. client[c] \in ClientRecord /\ told[c] \in Told \cup {None} /\ lost[c] \in Nat
    BY <1>1 DEF Types, TypeOK
  <2>2. told'[c] \in Told \cup {None}  BY <1>3, <2>1 DEF Told
  <2>3. lost'[c] \in Nat  BY <1>4, <2>1
  <2>4. CASE c \in Last
    <3>1. client'[c] = [client[c] EXCEPT !.phase = "idle", !.attempt = 0, !.answer = "unavailable"]
      BY <1>2, <2>4
    <3>2. 0 \in 0..(MaxRetries + 1)  BY <1>1
    <3>3. /\ client'[c] \in ClientRecord /\ client'[c].op = client[c].op
          /\ client'[c].email = client[c].email /\ client'[c].phase = "idle"
          /\ client'[c].attempt = 0 /\ client'[c].answer = "unavailable"
      BY <2>1, <3>1, <3>2 DEF ClientRecord, Answers, Told
    <3>4. QED  BY <1>3, <1>4, <1>6, <1>7, <2>2, <2>3, <2>4, <3>3
  <2>5. CASE c \in Cut /\ c \notin Last
    <3>1. client'[c] = [client[c] EXCEPT !.phase = "backoff"]  BY <1>2, <2>5
    <3>2. client[c].attempt \in 0..(MaxRetries + 1) /\ ~ (client[c].attempt > MaxRetries)
      BY <1>7, <2>1, <2>5 DEF ClientRecord
    <3>3. client[c].attempt <= MaxRetries  BY <1>1, <3>2
    <3>4. /\ client'[c] \in ClientRecord /\ client'[c].op = client[c].op
          /\ client'[c].email = client[c].email /\ client'[c].phase = "backoff"
          /\ client'[c].attempt = client[c].attempt /\ client'[c].answer = client[c].answer
      BY <2>1, <3>1 DEF ClientRecord
    <3>5. QED  BY <1>3, <1>4, <1>6, <2>2, <2>3, <2>5, <3>3, <3>4
  <2>6. CASE c \notin Cut
    <3>1. client'[c] = client[c]  BY <1>2, <1>7, <2>6
    <3>2. QED  BY <1>3, <1>4, <1>6, <1>7, <2>1, <2>2, <2>3, <2>6, <3>1
  <2>7. QED  BY <2>4, <2>5, <2>6
<1>9. /\ client' \in [Clients -> ClientRecord] /\ told' \in [Clients -> Told \cup {None}]
      /\ lost' \in [Clients -> Nat]
      /\ call' \in [Clients -> [Attempts -> {"none", "find", "save"}]]
  <2>1. /\ client' = [c \in Clients |-> client'[c]] /\ told' = [c \in Clients |-> told'[c]]
        /\ lost' = [c \in Clients |-> lost'[c]]
    BY DEF Crash
  <2>2. call' \in [Clients -> [Attempts -> {"none", "find", "save"}]]
    BY <1>1 DEF Crash, Types, TypeOK
  <2>3. QED  BY <1>8, <2>1, <2>2
<1>10. TypeOK'  BY <1>1, <1>9 DEF Types, TypeOK
<1>11. ASSUME NEW c \in Clients  PROVE Phased(c)' /\ ClientInv(c)'
  <2>1. ClientInv(c) /\ Phased(c) /\ lost[c] \in Nat
    BY <1>1 DEF RegistrationInv, Types, TypeOK
  <2>2. /\ client'[c].op = client[c].op /\ client'[c].email = client[c].email
        /\ HasAccount(c)' <=> HasAccount(c)
    BY <1>1, <1>8 DEF HasAccount, WithEmail
  <2>3. Phased(c)'  BY <1>1, <1>8, <2>1 DEF Phased, Attempts
  <2>4. \A n \in Attempts :
          call'[c][n] \notin Running /\ (call[c][n] = "none" => call'[c][n] = "none")
    BY <1>5 DEF Running
  <2>5. Untouched(c)'
    BY <1>1, <1>8, <2>1, <2>2, <2>4 DEF ClientInv, Untouched, Phased
  <2>6. AnswersInv(c)'
    <3>1. CASE client[c].phase # "waiting"
      BY <1>1, <1>8, <2>1, <2>2, <3>1 DEF ClientInv, AnswersInv, WithEmail
    <3>2. CASE client[c].phase = "waiting"
      BY <1>1, <1>8, <2>1, <2>2, <3>2 DEF ClientInv, AnswersInv, WithEmail
    <3>3. QED  BY <3>1, <3>2
  <2>7. LossInv(c)'
    <3>1. SUFFICES ASSUME client[c].op = "register", lost'[c] = 0
                   PROVE  HasAccount(c) => told'[c] = "created"
      BY <1>1, <2>2, <2>4 DEF LossInv
    <3>2. client'[c] = client[c] /\ told'[c] = told[c] /\ lost[c] = 0  BY <1>8, <2>1, <3>1
    <3>3. QED  BY <2>1, <3>1, <3>2 DEF ClientInv, LossInv
  <2>8. RaceInv(c)'
    <3>1. CASE client[c].phase # "waiting"
      BY <1>1, <1>8, <2>1, <3>1 DEF ClientInv, RaceInv, WithEmail
    <3>2. CASE client[c].op = "register" /\ client[c].phase = "waiting"
      <4>1. client[c].attempt \in Nat  BY <1>1, <2>1, <3>2 DEF Phased, Attempts
      <4>2. \/ client[c].attempt <= 1 + lost[c]
            \/ client[c].attempt <= 2 + lost[c] /\ WithEmail(client[c].email) # {}
        BY <2>1, <3>2 DEF ClientInv, RaceInv
      <4>3. WithEmail(client[c].email) # {} => WithEmail(client[c].email)' # {}
        BY <1>1, <2>2 DEF WithEmail
      <4>4. CASE client'[c].phase = "idle"  BY <4>4 DEF RaceInv
      <4>5. CASE /\ client'[c].phase = "backoff" /\ client'[c].attempt = client[c].attempt
                 /\ lost'[c] = lost[c] + 1
        BY <2>1, <2>2, <4>1, <4>2, <4>3, <4>5 DEF RaceInv
      <4>6. QED  BY <1>8, <3>2, <4>4, <4>5
    <3>3. CASE client[c].op # "register"  BY <2>2, <3>3 DEF RaceInv
    <3>4. QED  BY <3>1, <3>2, <3>3
  <2>9. QED  BY <2>3, <2>5, <2>6, <2>7, <2>8 DEF ClientInv
<1>12. QED  BY <1>1, <1>10, <1>11 DEF RegistrationInv, Types, OneAccountPerEmail

-------------------------------------------------------------------------------
(* The theorems *)

\* The invariant holds at first.
LEMMA RegistrationInvInit == Init => RegistrationInv
<1> SUFFICES ASSUME Init PROVE RegistrationInv  OBVIOUS
<1>1. MaxRetries \in Nat /\ MaxFaults \in Nat /\ None \notin Answers
  BY RegistrationAssumption DEF Answers, Told
<1> DEFINE row == [op |-> "none", email |-> None, phase |-> "idle", attempt |-> 0, answer |-> None]
<1>2. row \in ClientRecord  BY <1>1 DEF ClientRecord
<1>3. TypeOK  BY <1>1, <1>2 DEF Init, TypeOK
<1>4. ASSUME NEW c \in Clients
      PROVE  /\ client[c].op = "none" /\ client[c].phase = "idle" /\ client[c].attempt = 0
             /\ client[c].answer = None /\ told[c] = None /\ users = {}
             /\ \A n \in Attempts : call[c][n] = "none"
  BY DEF Init
<1>5. ASSUME NEW c \in Clients  PROVE Phased(c) /\ ClientInv(c)
  <2>1. Phased(c)  BY <1>4 DEF Phased
  <2>2. Untouched(c)  BY <1>4 DEF Untouched
  <2>3. AnswersInv(c)  BY <1>1, <1>4 DEF AnswersInv, Answers, Told
  <2>4. LossInv(c) /\ RaceInv(c)  BY <1>4 DEF LossInv, RaceInv
  <2>5. QED  BY <2>1, <2>2, <2>3, <2>4 DEF ClientInv
<1>6. OneAccountPerEmail  BY DEF Init, OneAccountPerEmail
<1>7. QED  BY <1>3, <1>5, <1>6 DEF RegistrationInv, Types

\* Every step keeps the invariant.
LEMMA RegistrationInvStep == RegistrationInv /\ [Next]_vars => RegistrationInv'
<1> SUFFICES ASSUME RegistrationInv, [Next]_vars PROVE RegistrationInv'  OBVIOUS
<1>1. ASSUME NEW c \in Clients, NEW op \in Ops, NEW e \in Emails, Ask(c, op, e)
      PROVE  RegistrationInv'
  BY <1>1, AskStep
<1>2. ASSUME NEW c \in Clients, Advance(c)  PROVE RegistrationInv'
  BY <1>2, TimesOutStep, RetryStep, LoginStep DEF Advance
<1>3. ASSUME NEW c \in Clients, NEW n \in Attempts, Handle(c, n) \/ DatabaseError(c, n)
      PROVE  RegistrationInv'
  BY <1>3, FindStep, SaveStep, DatabaseErrorStep DEF Handle
<1>4. CASE Crash  BY <1>4, CrashStep
<1>5. CASE UNCHANGED vars
  BY <1>5
  DEF vars, RegistrationInv, Types, TypeOK, Phased, OneAccountPerEmail, ClientInv, Untouched,
      AnswersInv, LossInv, RaceInv, HasAccount, WithEmail, Awaits
<1>6. QED  BY <1>1, <1>2, <1>3, <1>4, <1>5 DEF Next

\* The inductive invariant: what each client was told, what it lost, and what of
\* its registration still runs in users-service.
THEOREM RegistrationInvariant == Spec => []RegistrationInv
<1>1. Init => RegistrationInv  BY RegistrationInvInit
<1>2. RegistrationInv /\ [Next]_vars => RegistrationInv'  BY RegistrationInvStep
<1>3. QED  BY <1>1, <1>2, PTL DEF Spec

\* However the look-ups and inserts of registrations interleave, with repeated
\* attempts and those the gateway gave up, an e-mail has one account.
THEOREM EmailsAreUnique == Spec => []OneAccountPerEmail
<1>1. RegistrationInv => OneAccountPerEmail  BY DEF RegistrationInv
<1>2. QED  BY <1>1, RegistrationInvariant, PTL

\* What AuthService of the gateway answers of an account is true, and stays so.
THEOREM ClientsAreToldTheTruth == Spec => []AnswersAreTrue
<1>1. RegistrationInv => AnswersAreTrue
  BY DEF RegistrationInv, ClientInv, AnswersInv, AnswersAreTrue
<1>2. QED  BY <1>1, RegistrationInvariant, PTL

\* A registration answered with a conflict has an account with that e-mail in its
\* way, and its own only if an attempt of it was lost.
THEOREM ConflictsAreExplained == Spec => []ConflictExplained
<1>1. RegistrationInv => ConflictExplained
  BY DEF RegistrationInv, ClientInv, AnswersInv, LossInv, ConflictExplained, Types, TypeOK
<1>2. QED  BY <1>1, RegistrationInvariant, PTL

\* However many retries are configured, losing the race for an e-mail costs a
\* registration one attempt.
THEOREM LostRacesCostOneAttempt == Spec => []RaceCostsOneAttempt
<1>1. ASSUME RegistrationInv, NEW c \in Clients, client[c].op = "register"
      PROVE  client[c].attempt <= 2 + lost[c]
  <2>1. Phased(c) /\ RaceInv(c) /\ lost[c] \in Nat /\ client[c].attempt \in Nat
        /\ client[c].phase \in {"idle", "waiting", "backoff"}
    BY <1>1, RegistrationAssumption DEF RegistrationInv, Types, TypeOK, ClientInv, ClientRecord
  <2>2. QED  BY <1>1, <2>1 DEF Phased, RaceInv
<1>2. RegistrationInv => RaceCostsOneAttempt  BY <1>1 DEF RaceCostsOneAttempt
<1>3. QED  BY <1>2, RegistrationInvariant, PTL
===============================================================================
