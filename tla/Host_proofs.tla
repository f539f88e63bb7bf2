---------------------------- MODULE Host_proofs -----------------------------
(* The proofs about the components of one host that share no state: the     *)
(* Claude Code session, the background service, the hook installers and the *)
(* allocation of shared sessions, which starves no terminal and hides no    *)
(* turn for all finite sets of terminals and sessions.                      *)
EXTENDS ClaudeSession, MonitorService, HookInstaller, SharedSessions, SequenceTheorems,
        RecursionLemmas

-----------------------------------------------------------------------------
(* ClaudeSession: what the tail of a transcript tells                      *)

Works == {"prompt", "assistant", "failed"}
Kinds == Works \union {"note"}
Statuses == {"starting", "busy", "waiting", "idle"}

HasWork(s) == \E i \in DOMAIN s : IsWork(s[i])

\* The newest work record of s, which is an answer if good.
EndsWell(s, good) ==
  \E i \in DOMAIN s :
    /\ IsWork(s[i]) /\ (s[i] = "assistant" <=> good)
    /\ \A j \in DOMAIN s : j > i => ~IsWork(s[j])

\* The last record is one of work.
EndsWithWork(s) == s # <<>> /\ IsWork(s[Len(s)])

LEMMA TailOfTranscript ==
  ASSUME NEW s \in Seq(Kinds)
  PROVE  \E d \in 0 .. Len(s) :
           /\ TailOf(s) \in Seq(Kinds)
           /\ DOMAIN TailOf(s) = 1 .. Len(s) - d
           /\ \A i \in 1 .. Len(s) - d : d + i \in DOMAIN s /\ TailOf(s)[i] = s[d + i]
           /\ s # <<>> => d < Len(s)
<1> DEFINE d == IF Len(s) > TailRecords THEN Len(s) - TailRecords ELSE 0
<1>1. Len(s) \in Nat /\ TailRecords \in Nat \ {0} /\ DOMAIN s = 1 .. Len(s)
  BY ClaudeAssumption
<1>2. d \in 0 .. Len(s) /\ (s # <<>> => d < Len(s))
  <2>1. s # <<>> => Len(s) > 0
    BY <1>1, EmptySeq
  <2>2. QED
    BY <1>1, <2>1
<1>3. TailOf(s) = SubSeq(s, d + 1, Len(s))
  BY <1>1 DEF TailOf
<1> HIDE DEF d
<1>4. d + 1 \in Int /\ Len(s) \in Int /\ \A i \in d + 1 .. Len(s) : s[i] \in Kinds
  <2>1. \A i \in d + 1 .. Len(s) : i \in 1 .. Len(s)
    BY <1>1, <1>2
  <2>2. QED
    BY <1>1, <1>2, <2>1
<1>5. /\ TailOf(s) \in Seq(Kinds)
      /\ Len(TailOf(s)) = IF d + 1 <= Len(s) THEN Len(s) - (d + 1) + 1 ELSE 0
      /\ \A i \in 1 .. Len(s) - (d + 1) + 1 : TailOf(s)[i] = s[d + 1 + i - 1]
  BY <1>3, <1>4, SubSeqProperties
<1>6. Len(TailOf(s)) = Len(s) - d /\ Len(s) - (d + 1) + 1 = Len(s) - d
  <2>1. d \in Nat /\ d <= Len(s)
    BY <1>1, <1>2
  <2>2. Len(s) - (d + 1) + 1 = Len(s) - d /\ (d + 1 <= Len(s) \/ Len(s) - d = 0)
    <3>1. \A n, e \in Nat : e <= n => n - (e + 1) + 1 = n - e /\ (e + 1 <= n \/ n - e = 0)
      OBVIOUS
    <3>2. QED
      BY <1>1, <2>1, <3>1
  <2>3. QED
    BY <1>5, <2>2
<1>7. ASSUME NEW i \in 1 .. Len(s) - d PROVE d + i \in DOMAIN s /\ d + 1 + i - 1 = d + i
  BY <1>1, <1>2
<1>8. QED
  BY <1>2, <1>5, <1>6, <1>7

\* What the walk back through the tail finds.
LEMMA OutcomeIsFound ==
  ASSUME NEW s \in Seq(Kinds)
  PROVE  /\ OutcomeOf(s) \in {"hidden", "success", "failure"}
         /\ OutcomeOf(s) # "hidden" => HasWork(s)
         /\ EndsWithWork(s) => OutcomeOf(s) # "hidden"
         /\ EndsWell(s, TRUE) => OutcomeOf(s) \in {"hidden", "success"}
         /\ EndsWell(s, FALSE) => OutcomeOf(s) \in {"hidden", "failure"}
<1> DEFINE tail == TailOf(s)
           work == {i \in DOMAIN tail : IsWork(tail[i])}
<1>1. PICK d \in 0 .. Len(s) :
        /\ tail \in Seq(Kinds)
        /\ DOMAIN tail = 1 .. Len(s) - d
        /\ \A i \in 1 .. Len(s) - d : d + i \in DOMAIN s /\ tail[i] = s[d + i]
        /\ s # <<>> => d < Len(s)
  BY TailOfTranscript
<1>2. OutcomeOf(s) = IF work = {} THEN "hidden"
                     ELSE IF tail[Max(work)] = "assistant" THEN "success" ELSE "failure"
  BY DEF OutcomeOf
<1> HIDE DEF tail
<1>3. Len(s) \in Nat /\ DOMAIN s = 1 .. Len(s) /\ d \in Nat
  OBVIOUS
<1>4. ASSUME work # {} PROVE Max(work) \in work /\ \A i \in work : i <= Max(work)
  <2>1. work \subseteq Nat /\ \A i \in work : i <= Len(s)
    BY <1>1, <1>3
  <2> HIDE DEF work
  <2>2. \E i \in work : \A j \in work : j <= i
    BY <1>3, <1>4, <2>1, GreatestNatural
  <2>3. \E i \in work : \A j \in work : i >= j
    BY <2>1, <2>2
  <2>4. Max(work) \in work /\ \A j \in work : Max(work) >= j
    BY <2>3 DEF Max
  <2>5. QED
    BY <2>1, <2>4
<1> DEFINE m == Max(work)
<1> HIDE DEF m
<1>5. ASSUME OutcomeOf(s) # "hidden" PROVE HasWork(s)
  <2>1. PICK i \in DOMAIN tail : IsWork(tail[i])
    BY <1>2, <1>5
  <2>2. QED
    BY <1>1, <2>1 DEF HasWork
<1>6. ASSUME EndsWithWork(s) PROVE OutcomeOf(s) # "hidden"
  <2>1. Len(s) - d \in 1 .. Len(s) - d /\ d + (Len(s) - d) = Len(s)
    BY <1>1, <1>3, <1>6 DEF EndsWithWork
  <2>2. Len(s) - d \in work
    BY <1>1, <1>6, <2>1 DEF EndsWithWork
  <2>3. QED
    BY <1>2, <2>2
<1>7. ASSUME NEW good \in BOOLEAN, EndsWell(s, good), work # {}
      PROVE  tail[m] = "assistant" <=> good
  <2>1. m \in work /\ \A i \in work : i <= m
    BY <1>4, <1>7 DEF m
  <2>2. PICK i \in DOMAIN s :
          /\ IsWork(s[i]) /\ (s[i] = "assistant" <=> good)
          /\ \A j \in DOMAIN s : j > i => ~IsWork(s[j])
    BY <1>7 DEF EndsWell
  <2>3. d + m \in DOMAIN s /\ tail[m] = s[d + m] /\ IsWork(s[d + m]) /\ m \in 1 .. Len(s) - d
    BY <1>1, <2>1
  <2>4. d + m <= i
    BY <1>3, <2>2, <2>3
  <2>5. i - d \in 1 .. Len(s) - d /\ d + (i - d) = i
    BY <1>3, <2>3, <2>4
  <2>6. i - d \in work
    BY <1>1, <2>2, <2>5
  <2>7. d + m = i
    BY <1>3, <2>1, <2>3, <2>4, <2>5, <2>6
  <2>8. QED
    BY <2>2, <2>3, <2>7
<1>8. QED
  BY <1>2, <1>5, <1>6, <1>7 DEF m

\* What one more record does to a transcript.
LEMMA RecordAppended ==
  ASSUME NEW s \in Seq(Kinds), NEW r \in Kinds
  PROVE  /\ Append(s, r) \in Seq(Kinds) /\ Len(Append(s, r)) = Len(s) + 1
         /\ HasWork(Append(s, r)) <=> HasWork(s) \/ IsWork(r)
         /\ EndsWithWork(Append(s, r)) <=> IsWork(r)
         /\ IsWork(r) => \A good \in BOOLEAN : EndsWell(Append(s, r), good) <=> (r = "assistant" <=> good)
         /\ ~IsWork(r) => \A good \in BOOLEAN : EndsWell(s, good) => EndsWell(Append(s, r), good)
<1> DEFINE t == Append(s, r)
           n == Len(s) + 1
<1>1. /\ t \in Seq(Kinds) /\ Len(t) = n /\ DOMAIN s = 1 .. Len(s) /\ DOMAIN t = 1 .. n
      /\ Len(s) \in Nat /\ n \in DOMAIN t /\ t[n] = r
      /\ \A i \in DOMAIN s : i \in DOMAIN t /\ t[i] = s[i] /\ n > i
      /\ \A i \in DOMAIN t : i \in DOMAIN s \/ i = n
  BY AppendProperties
<1>2. t # <<>>
  BY <1>1
<1> HIDE DEF t
<1>3. HasWork(t) <=> HasWork(s) \/ IsWork(r)
  BY <1>1 DEF HasWork
<1>4. EndsWithWork(t) <=> IsWork(r)
  BY <1>1, <1>2 DEF EndsWithWork
<1>5. ASSUME IsWork(r), NEW good \in BOOLEAN PROVE EndsWell(t, good) <=> (r = "assistant" <=> good)
  <2>1. ASSUME EndsWell(t, good) PROVE r = "assistant" <=> good
    BY <1>1, <1>5, <2>1 DEF EndsWell
  <2>2. \A j \in DOMAIN t : ~(j > n)
    BY <1>1
  <2>3. ASSUME r = "assistant" <=> good PROVE EndsWell(t, good)
    BY <1>1, <1>5, <2>2, <2>3 DEF EndsWell
  <2>4. QED
    BY <2>1, <2>3
<1>6. ASSUME ~IsWork(r), NEW good \in BOOLEAN, EndsWell(s, good) PROVE EndsWell(t, good)
  BY <1>1, <1>6 DEF EndsWell
<1>7. QED
  BY <1>1, <1>3, <1>4, <1>5, <1>6 DEF t

-----------------------------------------------------------------------------
(* ClaudeSession: the process and its files                                *)

Registration == [start : Nat, session : ClaudeSessions, status : Statuses]

ProcessTypeOK ==
  /\ claude \in [start : Nat, session : ClaudeSessions \union {Nothing},
                 status : Statuses \union {"dead"}, open : BOOLEAN,
                 record : Kinds \union {Nothing}, register : BOOLEAN]
  /\ registration \in Registration \union {Nothing}
  /\ transcript \in [ClaudeSessions -> Seq(Kinds)]
  /\ outcome \in [ClaudeSessions -> {"hidden", "open", "success", "failure", "unknown"}]

\* A process that died has nothing to write, and what a living one registered,
\* but for a write to come, is what it is.
RegistrationIsTrue ==
  /\ claude.status # "dead" => claude.session \in ClaudeSessions /\ claude.start > 0
  /\ claude.status = "dead" => ~claude.open /\ IsSettled
  /\ claude.status \in {"starting", "idle"} => ~claude.open
  /\ claude.status = "starting" => IsSettled
  /\ registration # Nothing =>
       /\ registration.start <= claude.start
       /\ claude.status = "starting" => registration.start # claude.start
       /\ claude.status # "dead" /\ ~claude.register /\ registration.start = claude.start =>
            registration.session = claude.session /\ registration.status = claude.status

\* The transcript of a session with the record to come.
Full(c) ==
  IF claude.record # Nothing /\ claude.session = c
  THEN Append(transcript[c], claude.record) ELSE transcript[c]

\* What the records of a session have to do with its last turn.
OutcomesAreTrue ==
  /\ \A c \in ClaudeSessions :
       /\ outcome[c] = "hidden" => ~HasWork(Full(c))
       /\ outcome[c] = "open" => claude.open /\ claude.session = c
       /\ outcome[c] = "success" => EndsWell(Full(c), TRUE)
       /\ outcome[c] = "failure" => EndsWell(Full(c), FALSE)
  /\ claude.open => outcome[claude.session] = "open" /\ EndsWithWork(Full(claude.session))

ProcessInv == ProcessTypeOK /\ RegistrationIsTrue /\ OutcomesAreTrue

LEMMA NothingIsNoRecord == Nothing \notin Kinds
BY ClaudeAssumption DEF Kinds, Works

LEMMA SettledIsFull ==
  ASSUME claude.record = Nothing, NEW c
  PROVE  Full(c) = transcript[c]
BY DEF Full

LEMMA FullIsSequence ==
  ASSUME ProcessTypeOK, NEW c \in ClaudeSessions
  PROVE  Full(c) \in Seq(Kinds)
<1>1. transcript[c] \in Seq(Kinds) /\ claude.record \in Kinds \union {Nothing}
  BY DEF ProcessTypeOK
<1>2. QED
  BY <1>1, AppendProperties DEF Full

LEMMA EmptyTranscript == ~HasWork(<<>>)
BY DEF HasWork

LEMMA ProcessInitially == ClaudeInit => ProcessInv
<1> SUFFICES ASSUME ClaudeInit PROVE ProcessInv
  OBVIOUS
<1> USE DEF ClaudeInit
<1>1. ProcessTypeOK
  BY DEF ProcessTypeOK
<1>2. RegistrationIsTrue
  BY DEF RegistrationIsTrue, IsSettled
<1>3. \A c \in ClaudeSessions : Full(c) = <<>> /\ outcome[c] = "hidden"
  BY SettledIsFull
<1>4. OutcomesAreTrue
  BY <1>3, EmptyTranscript DEF OutcomesAreTrue
<1>5. QED
  BY <1>1, <1>2, <1>4 DEF ProcessInv

\* The transcript of the current session and one more record, if any.
With(record) ==
  IF record = Nothing THEN transcript[claude.session]
  ELSE Append(transcript[claude.session], record)

\* A settled process decides on a status and a record.
LEMMA DecidesKeeps ==
  ASSUME ProcessInv, NEW status \in Statuses \ {"starting"}, NEW record \in Kinds \union {Nothing},
         NEW open \in BOOLEAN, Decides(status, record, open),
         outcome' \in [ClaudeSessions -> {"hidden", "open", "success", "failure", "unknown"}],
         status = "idle" => ~open,
         \A c \in ClaudeSessions : c # claude.session => outcome'[c] = outcome[c],
         outcome'[claude.session] = "hidden" => ~HasWork(With(record)),
         outcome'[claude.session] = "open" <=> open,
         outcome'[claude.session] = "success" => EndsWell(With(record), TRUE),
         outcome'[claude.session] = "failure" => EndsWell(With(record), FALSE),
         open => EndsWithWork(With(record))
  PROVE  ProcessInv'
<1> USE DEF ProcessInv
<1> DEFINE t == With(record)
<1> USE DEF With
<1>1. /\ claude.status # "dead" /\ claude.record = Nothing /\ ~claude.register
      /\ claude' = [claude EXCEPT !.status = status, !.record = record, !.register = TRUE,
                                  !.open = open]
      /\ registration' = registration /\ transcript' = transcript
  BY DEF Decides, IsSettled
<1>2. /\ claude'.status = status /\ claude'.record = record /\ claude'.register = TRUE
      /\ claude'.open = open /\ claude'.session = claude.session /\ claude'.start = claude.start
  BY <1>1 DEF ProcessTypeOK
<1>3. ProcessTypeOK'
  <2>1. claude' \in [start : Nat, session : ClaudeSessions \union {Nothing},
                     status : Statuses \union {"dead"}, open : BOOLEAN,
                     record : Kinds \union {Nothing}, register : BOOLEAN]
    BY <1>1 DEF ProcessTypeOK
  <2>2. QED
    BY <1>1, <2>1 DEF ProcessTypeOK
<1>4. RegistrationIsTrue'
  BY <1>1, <1>2 DEF RegistrationIsTrue, IsSettled, Statuses
<1>5. claude.session \in ClaudeSessions
  BY <1>1 DEF RegistrationIsTrue
<1>6. \A c \in ClaudeSessions : Full(c)' = IF c = claude.session THEN t ELSE Full(c)
  BY <1>1, <1>2, SettledIsFull DEF Full
<1>7. ~claude.open \/ outcome[claude.session] = "open"
  BY DEF OutcomesAreTrue
<1>8. OutcomesAreTrue'
  <2>1. ASSUME NEW c \in ClaudeSessions
        PROVE  /\ outcome'[c] = "hidden" => ~HasWork(Full(c)')
               /\ outcome'[c] = "open" => open /\ claude.session = c
               /\ outcome'[c] = "success" => EndsWell(Full(c)', TRUE)
               /\ outcome'[c] = "failure" => EndsWell(Full(c)', FALSE)
    <3>1. CASE c = claude.session
      BY <1>6, <3>1
    <3>2. CASE c # claude.session
      BY <1>6, <3>2 DEF OutcomesAreTrue
    <3>3. QED
      BY <3>1, <3>2
  <2>2. open => outcome'[claude.session] = "open" /\ EndsWithWork(Full(claude.session)')
    BY <1>2, <1>5, <1>6
  <2>3. QED
    BY <1>2, <2>1, <2>2 DEF OutcomesAreTrue
<1>9. QED
  BY <1>3, <1>4, <1>8

\* Steps that leave what was and will be written as it is.
Fulls == [c \in ClaudeSessions |-> Full(c)]

LEMMA SameFull ==
  ASSUME OutcomesAreTrue, outcome' = outcome, claude'.open = claude.open,
         claude.open => claude'.session = claude.session /\ claude.session \in ClaudeSessions,
         Fulls' = Fulls
  PROVE  OutcomesAreTrue'
<1>0. \A c \in ClaudeSessions : Full(c)' = Full(c)
  <2> SUFFICES ASSUME NEW c \in ClaudeSessions PROVE Full(c)' = Full(c)
    OBVIOUS
  <2>1. Fulls[c] = Full(c) /\ Fulls'[c] = Full(c)'
    BY DEF Fulls
  <2>2. QED
    BY <2>1
<1>1. ASSUME NEW c \in ClaudeSessions
      PROVE  /\ outcome'[c] = "hidden" => ~HasWork(Full(c)')
             /\ outcome'[c] = "open" => claude'.open /\ claude'.session = c
             /\ outcome'[c] = "success" => EndsWell(Full(c)', TRUE)
             /\ outcome'[c] = "failure" => EndsWell(Full(c)', FALSE)
  BY <1>0 DEF OutcomesAreTrue
<1>2. claude'.open => (outcome[claude.session] = "open" /\ EndsWithWork(Full(claude.session)))'
  <2> SUFFICES ASSUME claude.open
               PROVE  (outcome[claude.session] = "open" /\ EndsWithWork(Full(claude.session)))'
    OBVIOUS
  <2> DEFINE current == claude.session
  <2>1. outcome[current] = "open" /\ EndsWithWork(Full(current)) /\ claude'.session = current /\ current \in ClaudeSessions
    BY DEF OutcomesAreTrue
  <2>2. Full(claude.session)' = Full(current)
    BY <1>0, <2>1 DEF Full
  <2>3. EndsWithWork(Full(claude.session))'
    BY <2>1, <2>2 DEF EndsWithWork, IsWork
  <2>4. QED
    BY <2>1, <2>3
<1>3. QED
  BY <1>1, <1>2 DEF OutcomesAreTrue, HasWork, EndsWell, EndsWithWork, IsWork, Full

LEMMA ProcessStep == ProcessInv /\ [ClaudeNext]_claudeVars => ProcessInv'
<1> SUFFICES ASSUME ProcessInv, [ClaudeNext]_claudeVars PROVE ProcessInv'
  OBVIOUS
<1> DEFINE current == claude.session
           s       == transcript[current]
           Outcomes == {"hidden", "open", "success", "failure", "unknown"}
<1>0. ProcessTypeOK /\ RegistrationIsTrue /\ OutcomesAreTrue
  BY DEF ProcessInv
\* What is known of a process that lives and has nothing to write.
<1>1. ASSUME claude.status # "dead", IsSettled
      PROVE  /\ current \in ClaudeSessions /\ s \in Seq(Kinds) /\ outcome[current] \in Outcomes
             /\ outcome[current] = "hidden" => ~HasWork(s)
             /\ outcome[current] = "open" => claude.open
             /\ outcome[current] = "success" => EndsWell(s, TRUE)
             /\ outcome[current] = "failure" => EndsWell(s, FALSE)
             /\ claude.open => outcome[current] = "open" /\ EndsWithWork(s)
  <2>1. current \in ClaudeSessions
    BY <1>0, <1>1 DEF RegistrationIsTrue
  <2>2. Full(current) = s
    BY <1>1, SettledIsFull DEF IsSettled
  <2>3. s \in Seq(Kinds) /\ outcome[current] \in Outcomes
    BY <1>0, <2>1 DEF ProcessTypeOK
  <2>4. QED
    BY <1>0, <2>1, <2>2, <2>3 DEF OutcomesAreTrue
\* ... and of a record that it adds.
<1>2. ASSUME claude.status # "dead", IsSettled, NEW r \in Kinds
      PROVE  /\ With(r) = Append(s, r)
             /\ HasWork(With(r)) <=> HasWork(s) \/ IsWork(r)
             /\ EndsWithWork(With(r)) <=> IsWork(r)
             /\ IsWork(r) => \A good \in BOOLEAN : EndsWell(With(r), good) <=> (r = "assistant" <=> good)
             /\ ~IsWork(r) => \A good \in BOOLEAN : EndsWell(s, good) => EndsWell(With(r), good)
  <2>1. With(r) = Append(s, r)
    BY NothingIsNoRecord DEF With
  <2>2. s \in Seq(Kinds)
    BY <1>1, <1>2
  <2> HIDE DEF s
  <2>3. /\ HasWork(Append(s, r)) <=> HasWork(s) \/ IsWork(r)
        /\ EndsWithWork(Append(s, r)) <=> IsWork(r)
        /\ IsWork(r) => \A good \in BOOLEAN : EndsWell(Append(s, r), good) <=> (r = "assistant" <=> good)
        /\ ~IsWork(r) => \A good \in BOOLEAN : EndsWell(s, good) => EndsWell(Append(s, r), good)
    BY <1>2, <2>2, RecordAppended
  <2>4. QED
    BY <2>1, <2>3
<1>3. With(Nothing) = s
  BY DEF With
<1> HIDE DEF s
<1>4. \A r \in Kinds : IsWork(r) <=> r # "note"
  BY DEF IsWork, Kinds, Works
<1>5. outcome \in [ClaudeSessions -> Outcomes]
  BY <1>0 DEF ProcessTypeOK
<1>6. CASE Prompted
  <2>1. /\ claude.status = "idle" /\ Decides("busy", "prompt", TRUE)
        /\ outcome' = [outcome EXCEPT ![current] = "open"]
    BY <1>6 DEF Prompted
  <2>2. claude.status # "dead" /\ IsSettled /\ "prompt" \in Kinds /\ "busy" \in Statuses \ {"starting"}
    BY <2>1 DEF Decides, Kinds, Works, Statuses
  <2>3. /\ outcome' \in [ClaudeSessions -> Outcomes] /\ outcome'[current] = "open"
        /\ \A c \in ClaudeSessions : c # current => outcome'[c] = outcome[c]
    BY <1>1, <1>5, <2>1, <2>2
  <2>4. EndsWithWork(With("prompt"))
    BY <1>2, <1>4, <2>2
  <2>5. QED
    BY <2>1, <2>2, <2>3, <2>4, DecidesKeeps
<1>7. CASE Notes
  <2>1. claude.status = "idle" /\ Decides("idle", "note", FALSE) /\ outcome' = outcome
    BY <1>7 DEF Notes
  <2>2. /\ claude.status # "dead" /\ IsSettled /\ "note" \in Kinds /\ "idle" \in Statuses \ {"starting"}
        /\ ~claude.open
    BY <1>0, <2>1 DEF Decides, Kinds, Statuses, RegistrationIsTrue
  <2>3. /\ outcome[current] = "hidden" => ~HasWork(With("note"))
        /\ outcome[current] = "success" => EndsWell(With("note"), TRUE)
        /\ outcome[current] = "failure" => EndsWell(With("note"), FALSE)
        /\ outcome[current] # "open"
    BY <1>1, <1>2, <1>4, <2>2
  <2>4. /\ outcome' \in [ClaudeSessions -> Outcomes]
        /\ \A c \in ClaudeSessions : c # current => outcome'[c] = outcome[c]
        /\ outcome'[current] = "open" <=> FALSE
        /\ outcome'[current] = outcome[current]
    BY <1>5, <2>1, <2>3
  <2>5. /\ outcome'[current] = "hidden" => ~HasWork(With("note"))
        /\ outcome'[current] = "success" => EndsWell(With("note"), TRUE)
        /\ outcome'[current] = "failure" => EndsWell(With("note"), FALSE)
        /\ "note" \in Kinds \union {Nothing}
    BY <2>2, <2>3, <2>4
  <2>6. QED
    BY <2>1, <2>2, <2>4, <2>5, DecidesKeeps
<1>8. ASSUME NEW status \in {"busy", "waiting", "idle"}, StartsUp(status) PROVE ProcessInv'
  <2>1. ~claude.open /\ Decides(status, Nothing, FALSE) /\ outcome' = outcome
    BY <1>8 DEF StartsUp
  <2>2. claude.status # "dead" /\ IsSettled /\ status \in Statuses \ {"starting"}
    BY <1>8, <2>1 DEF Decides, Statuses
  <2>3. QED
    BY <1>1, <1>3, <1>5, <2>1, <2>2, DecidesKeeps
<1>9. ASSUME NEW status \in Working, NEW r \in {Nothing, "assistant"}, Advances(status, r)
      PROVE  ProcessInv'
  <2>1. claude.open /\ Decides(status, r, TRUE) /\ outcome' = outcome
    BY <1>9 DEF Advances
  <2>2. /\ claude.status # "dead" /\ IsSettled /\ status \in Statuses \ {"starting"} /\ status # "idle"
        /\ r \in Kinds \union {Nothing} /\ outcome[current] = "open"
    BY <1>1, <1>9, <2>1 DEF Decides, Working, Statuses, Kinds, Works
  <2>3. EndsWithWork(With(r))
    BY <1>1, <1>2, <1>3, <1>4, <1>9, <2>1, <2>2 DEF Kinds, Works
  <2>4. QED
    BY <1>5, <2>1, <2>2, <2>3, DecidesKeeps
<1>10. ASSUME NEW r \in {Nothing, "assistant", "failed"}, TurnOver(r) PROVE ProcessInv'
  <2>1. /\ claude.open /\ IsSettled /\ Decides("idle", r, FALSE)
        /\ r = Nothing => Last(s) = "prompt"
        /\ outcome' = [outcome EXCEPT ![current] = IF r = "assistant" THEN "success" ELSE "failure"]
    BY <1>10 DEF TurnOver, s
  <2>2. /\ claude.status # "dead" /\ "idle" \in Statuses \ {"starting"}
        /\ r \in Kinds \union {Nothing} /\ Nothing # "assistant"
    BY <2>1, NothingIsNoRecord DEF Decides, Statuses, Kinds, Works
  <2>3. /\ outcome' \in [ClaudeSessions -> Outcomes]
        /\ outcome'[current] = IF r = "assistant" THEN "success" ELSE "failure"
        /\ \A c \in ClaudeSessions : c # current => outcome'[c] = outcome[c]
    BY <1>1, <1>5, <2>1, <2>2
  <2>4. r = "assistant" => EndsWell(With(r), TRUE)
    BY <1>2, <1>4, <2>1, <2>2 DEF Kinds, Works
  <2>5. r # "assistant" => EndsWell(With(r), FALSE)
    <3>1. CASE r = Nothing
      <4>1. s \in Seq(Kinds) /\ EndsWithWork(s) /\ s[Len(s)] = "prompt"
        BY <1>1, <2>1, <2>2, <3>1 DEF Last
      <4>2. Len(s) \in DOMAIN s /\ \A j \in DOMAIN s : ~(j > Len(s))
        <5>1. Len(s) # 0
          BY <4>1, EmptySeq DEF EndsWithWork
        <5>2. QED
          BY <4>1, <5>1
      <4>3. QED
        BY <1>3, <3>1, <4>1, <4>2 DEF EndsWell, EndsWithWork
    <3>2. CASE r = "failed"
      BY <1>2, <1>4, <2>1, <2>2, <3>2 DEF Kinds, Works
    <3>3. QED
      BY <1>10, <3>1, <3>2
  <2>6. /\ outcome'[current] # "hidden" /\ (outcome'[current] = "open" <=> FALSE)
        /\ outcome'[current] = "success" => EndsWell(With(r), TRUE)
        /\ outcome'[current] = "failure" => EndsWell(With(r), FALSE)
    BY <2>3, <2>4, <2>5
  <2>7. Decides("idle", r, FALSE)
    BY <2>1
  <2>8. QED
    BY <2>2, <2>3, <2>6, <2>7, DecidesKeeps
<1>11. CASE RecordWritten
  <2>1. /\ claude.record # Nothing
        /\ transcript' = [transcript EXCEPT ![current] = Append(s, claude.record)]
        /\ claude' = [claude EXCEPT !.record = Nothing]
        /\ registration' = registration /\ outcome' = outcome
    BY <1>11 DEF RecordWritten, s
  <2>2. claude.status # "dead" /\ current \in ClaudeSessions /\ claude.record \in Kinds
    BY <1>0, <2>1 DEF RegistrationIsTrue, IsSettled, ProcessTypeOK
  <2>3. /\ claude'.status = claude.status /\ claude'.record = Nothing /\ claude'.start = claude.start
        /\ claude'.open = claude.open /\ claude'.session = current /\ claude'.register = claude.register
    BY <1>0, <2>1 DEF ProcessTypeOK
  <2>4. \A c \in ClaudeSessions : Full(c)' = Full(c)
    BY <1>0, <2>1, <2>2, <2>3 DEF Full, ProcessTypeOK, s
  <2>5. ProcessTypeOK'
    <3>1. Append(s, claude.record) \in Seq(Kinds)
      BY <1>0, <2>2, AppendProperties DEF ProcessTypeOK, s
    <3>2. transcript' \in [ClaudeSessions -> Seq(Kinds)]
      BY <1>0, <2>1, <3>1 DEF ProcessTypeOK
    <3>3. QED
      BY <1>0, <2>1, <3>2 DEF ProcessTypeOK
  <2>6. RegistrationIsTrue'
    BY <1>0, <2>1, <2>2, <2>3 DEF RegistrationIsTrue, IsSettled
  <2>7. OutcomesAreTrue'
    <3>1. Fulls' = Fulls
      BY <2>4 DEF Fulls
    <3>2. QED
      BY <1>0, <2>1, <2>2, <2>3, <3>1, SameFull
  <2>8. QED
    BY <2>5, <2>6, <2>7 DEF ProcessInv
<1>12. CASE StatusWritten
  <2> DEFINE reg == [start |-> claude.start, session |-> current, status |-> claude.status]
  <2>1. /\ claude.register /\ registration' = reg
        /\ claude' = [claude EXCEPT !.register = FALSE]
        /\ transcript' = transcript /\ outcome' = outcome
    BY <1>12 DEF StatusWritten
  <2>2. claude.status # "dead" /\ current \in ClaudeSessions /\ claude.status # "starting"
    BY <1>0, <2>1 DEF RegistrationIsTrue, IsSettled
  <2>3. /\ claude'.status = claude.status /\ claude'.record = claude.record /\ claude'.start = claude.start
        /\ claude'.open = claude.open /\ claude'.session = current /\ claude'.register = FALSE
    BY <1>0, <2>1 DEF ProcessTypeOK
  <2>4. \A c \in ClaudeSessions : Full(c)' = Full(c)
    BY <2>1, <2>3 DEF Full
  <2>5. reg \in Registration /\ claude.start \in Nat
    BY <1>0, <2>2 DEF ProcessTypeOK, Registration
  <2>6. /\ reg.start = claude.start /\ reg.session = current /\ reg.status = claude.status
    OBVIOUS
  <2> HIDE DEF reg
  <2>7. ProcessTypeOK'
    BY <1>0, <2>1, <2>5 DEF ProcessTypeOK
  <2>8. RegistrationIsTrue'
    BY <1>0, <2>1, <2>2, <2>3, <2>5, <2>6 DEF RegistrationIsTrue, IsSettled
  <2>9. OutcomesAreTrue'
    <3>1. Fulls' = Fulls
      BY <2>4 DEF Fulls
    <3>2. QED
      BY <1>0, <2>1, <2>2, <2>3, <3>1, SameFull
  <2>10. QED
    BY <2>7, <2>8, <2>9 DEF ProcessInv
<1>13. ASSUME NEW c \in ClaudeSessions, Launches(c) PROVE ProcessInv'
  <2> DEFINE new == [start |-> claude.start + 1, session |-> c, status |-> "starting",
                     open |-> FALSE, record |-> Nothing, register |-> FALSE]
  <2>1. /\ claude.status = "dead" /\ claude' = new
        /\ registration' = registration /\ transcript' = transcript /\ outcome' = outcome
    BY <1>13 DEF Launches
  <2>2. ~claude.open /\ IsSettled
    BY <1>0, <2>1 DEF RegistrationIsTrue
  <2>3. /\ new \in [start : Nat, session : ClaudeSessions \union {Nothing},
                     status : Statuses \union {"dead"}, open : BOOLEAN,
                     record : Kinds \union {Nothing}, register : BOOLEAN]
        /\ claude.start \in Nat
    BY <1>0, <1>13 DEF ProcessTypeOK, Statuses
  <2>4. /\ new.status = "starting" /\ new.record = Nothing /\ new.start = claude.start + 1
        /\ new.open = FALSE /\ new.session = c /\ new.register = FALSE
    OBVIOUS
  <2> HIDE DEF new
  <2>5. \A d \in ClaudeSessions : Full(d)' = Full(d)
    BY <2>1, <2>2, <2>4 DEF Full, IsSettled
  <2>6. ProcessTypeOK'
    BY <1>0, <2>1, <2>3 DEF ProcessTypeOK
  <2>7. RegistrationIsTrue'
    <3>1. registration # Nothing => registration \in Registration /\ registration.start <= claude.start
      BY <1>0 DEF ProcessTypeOK, RegistrationIsTrue
    <3>2. registration # Nothing => registration.start # claude.start + 1 /\ registration.start <= claude.start + 1
      BY <2>3, <3>1 DEF Registration
    <3>3. QED
      BY <1>13, <2>1, <2>3, <2>4, <3>2 DEF RegistrationIsTrue, IsSettled
  <2>8. OutcomesAreTrue'
    <3>1. Fulls' = Fulls
      BY <2>5 DEF Fulls
    <3>2. claude'.open = claude.open
      BY <1>0, <2>1, <2>2, <2>4 DEF ProcessTypeOK
    <3>3. QED
      BY <1>0, <2>1, <2>2, <3>1, <3>2, SameFull
  <2>9. QED
    BY <2>6, <2>7, <2>8 DEF ProcessInv
<1>14. ASSUME NEW c \in ClaudeSessions, Cleared(c) PROVE ProcessInv'
  <2>1. /\ claude.status = "idle" /\ IsSettled
        /\ claude' = [claude EXCEPT !.session = c, !.register = TRUE]
        /\ registration' = registration /\ transcript' = transcript /\ outcome' = outcome
    BY <1>14 DEF Cleared
  <2>2. ~claude.open
    BY <1>0, <2>1 DEF RegistrationIsTrue
  <2>3. /\ claude'.status = "idle" /\ claude'.record = Nothing /\ claude'.start = claude.start
        /\ claude'.open = claude.open /\ claude'.session = c /\ claude'.register = TRUE
    BY <1>0, <2>1 DEF ProcessTypeOK, IsSettled
  <2>4. \A d \in ClaudeSessions : Full(d)' = Full(d)
    BY <2>1, <2>3 DEF Full, IsSettled
  <2>5. ProcessTypeOK'
    <3>1. claude' \in [start : Nat, session : ClaudeSessions \union {Nothing},
                       status : Statuses \union {"dead"}, open : BOOLEAN,
                       record : Kinds \union {Nothing}, register : BOOLEAN]
      BY <1>0, <1>14, <2>1 DEF ProcessTypeOK
    <3>2. QED
      BY <1>0, <2>1, <3>1 DEF ProcessTypeOK
  <2>6. RegistrationIsTrue'
    BY <1>0, <1>14, <2>1, <2>2, <2>3 DEF RegistrationIsTrue, IsSettled
  <2>7. OutcomesAreTrue'
    <3>1. Fulls' = Fulls
      BY <2>4 DEF Fulls
    <3>2. QED
      BY <1>0, <2>1, <2>2, <2>3, <3>1, SameFull
  <2>8. QED
    BY <2>5, <2>6, <2>7 DEF ProcessInv
<1>15. CASE ProcessDies
  <2>1. /\ claude.status # "dead"
        /\ claude' = [claude EXCEPT !.status = "dead", !.open = FALSE,
                                    !.record = Nothing, !.register = FALSE]
        /\ outcome' = IF claude.open \/ ~IsSettled
                      THEN [outcome EXCEPT ![current] = "unknown"] ELSE outcome
        /\ registration' = registration /\ transcript' = transcript
    BY <1>15 DEF ProcessDies
  <2>2. /\ claude'.status = "dead" /\ claude'.record = Nothing /\ claude'.start = claude.start
        /\ claude'.open = FALSE /\ claude'.session = current /\ claude'.register = FALSE
    BY <1>0, <2>1 DEF ProcessTypeOK
  <2>3. current \in ClaudeSessions
    BY <1>0, <2>1 DEF RegistrationIsTrue
  <2>4. ProcessTypeOK'
    <3>1. claude' \in [start : Nat, session : ClaudeSessions \union {Nothing},
                       status : Statuses \union {"dead"}, open : BOOLEAN,
                       record : Kinds \union {Nothing}, register : BOOLEAN]
      BY <1>0, <2>1 DEF ProcessTypeOK
    <3>2. outcome' \in [ClaudeSessions -> Outcomes]
      BY <1>5, <2>1
    <3>3. QED
      BY <1>0, <2>1, <3>1, <3>2 DEF ProcessTypeOK
  <2>5. RegistrationIsTrue'
    BY <1>0, <2>1, <2>2 DEF RegistrationIsTrue, IsSettled
  <2>6. CASE claude.open \/ ~IsSettled
    <3>1. /\ outcome'[current] = "unknown" /\ \A c \in ClaudeSessions : c # current => outcome'[c] = outcome[c]
      BY <1>5, <2>1, <2>3, <2>6
    <3>2. \A c \in ClaudeSessions : c # current => Full(c)' = Full(c)
      BY <2>1, <2>2 DEF Full
    <3>3. ASSUME NEW c \in ClaudeSessions
          PROVE  /\ outcome'[c] = "hidden" => ~HasWork(Full(c)')
                 /\ outcome'[c] # "open"
                 /\ outcome'[c] = "success" => EndsWell(Full(c)', TRUE)
                 /\ outcome'[c] = "failure" => EndsWell(Full(c)', FALSE)
      BY <1>0, <3>1, <3>2 DEF OutcomesAreTrue
    <3>4. OutcomesAreTrue'
      BY <2>2, <3>3 DEF OutcomesAreTrue, HasWork, EndsWell, EndsWithWork, IsWork, Full
    <3>5. QED
      BY <2>4, <2>5, <3>4 DEF ProcessInv
  <2>7. CASE ~(claude.open \/ ~IsSettled)
    <3>1. \A c \in ClaudeSessions : Full(c)' = Full(c)
      BY <2>1, <2>2, <2>7 DEF Full, IsSettled
    <3>2. OutcomesAreTrue'
      <4>1. Fulls' = Fulls
        BY <3>1 DEF Fulls
      <4>2. claude'.open = claude.open
        BY <1>0, <2>2, <2>7 DEF ProcessTypeOK
      <4>3. outcome' = outcome
        BY <2>1, <2>7
      <4>4. QED
        BY <1>0, <2>7, <4>1, <4>2, <4>3, SameFull
    <3>3. QED
      BY <2>4, <2>5, <3>2 DEF ProcessInv
  <2>8. QED
    BY <2>6, <2>7
<1>16. CASE UNCHANGED cliVars
  <2>1. /\ claude' = claude /\ registration' = registration /\ transcript' = transcript
        /\ outcome' = outcome
    BY <1>16 DEF cliVars
  <2>2. ProcessTypeOK'
    BY <1>0, <2>1 DEF ProcessTypeOK
  <2>3. RegistrationIsTrue'
    BY <1>0, <2>1 DEF RegistrationIsTrue, IsSettled
  <2>4. OutcomesAreTrue'
    <3>1. Fulls' = Fulls
      BY <2>1 DEF Fulls, Full
    <3>2. claude.open => claude'.session = claude.session /\ claude.session \in ClaudeSessions
      BY <1>0, <2>1 DEF RegistrationIsTrue
    <3>3. QED
      BY <1>0, <2>1, <3>1, <3>2, SameFull
  <2>5. QED
    BY <2>2, <2>3, <2>4 DEF ProcessInv
<1>17. QED
  <2>1. ASSUME ClaudeRefresh \/ UNCHANGED claudeVars PROVE UNCHANGED cliVars
    BY <2>1 DEF ClaudeRefresh, ProcessesListed, RegistrationRead, TranscriptStat, RowShown,
                cliVars, claudeVars
  <2>2. QED
    BY <1>6, <1>7, <1>8, <1>9, <1>10, <1>11, <1>12, <1>13, <1>14, <1>15, <1>16, <2>1
       DEF ClaudeNext, ClaudeActs

-----------------------------------------------------------------------------
(* ClaudeSession: the monitor and its row                                  *)

Finding == {"hidden", "success", "failure"}
Memory == [length : Nat, outcome : Finding]

MonitorTypeOK ==
  /\ latched \in SUBSET ClaudeSessions
  /\ remembered \in [ClaudeSessions -> Memory \union {Nothing}]
  /\ refresh \in [step : {"none", "listed", "registered", "stat"}, start : Nat,
                  found : Registration \union {Nothing}, length : Nat, calm : BOOLEAN]

\* What is remembered of a session was true of a prefix of its transcript.
MemoryIsTrue ==
  /\ \A c \in latched : HasWork(transcript[c])
  /\ \A c \in ClaudeSessions : remembered[c] # Nothing =>
       /\ remembered[c].length <= Len(transcript[c])
       /\ remembered[c].length = Len(transcript[c]) => remembered[c].outcome = OutcomeOf(transcript[c])
       /\ remembered[c].outcome # "hidden" => HasWork(transcript[c])

\* A signature is never ahead of the transcript it was taken of.
SignatureIsOld ==
  refresh.step = "stat" /\ refresh.found # Nothing =>
    refresh.length <= Len(transcript[refresh.found.session])

\* What a refresh read during which the process did nothing is what there is.
CalmIsNow ==
  refresh.calm =>
    /\ refresh.step = "listed" =>
         refresh.start = IF claude.status = "dead" THEN 0 ELSE claude.start
    /\ refresh.step \in {"registered", "stat"} =>
         refresh.found = IF IsRegistered THEN registration ELSE Nothing
    /\ refresh.step = "stat" /\ refresh.found # Nothing =>
         refresh.length = Len(transcript[refresh.found.session])

ClaudeInv ==
  /\ ProcessInv
  /\ MonitorTypeOK
  /\ MemoryIsTrue
  /\ SignatureIsOld
  /\ CalmIsNow
  /\ ClaudeTellsTheTruth

LEMMA ClaudeInitially == ClaudeInit => ClaudeInv
<1> SUFFICES ASSUME ClaudeInit PROVE ClaudeInv
  OBVIOUS
<1>1. ProcessInv
  BY ProcessInitially
<1>2. /\ latched = {} /\ remembered = [c \in ClaudeSessions |-> Nothing] /\ refresh = NoRefresh
      /\ row = NoRow
  BY DEF ClaudeInit
<1>3. MonitorTypeOK
  BY <1>2 DEF MonitorTypeOK, NoRefresh
<1>4. MemoryIsTrue /\ SignatureIsOld /\ CalmIsNow /\ ClaudeTellsTheTruth
  BY <1>2 DEF MemoryIsTrue, SignatureIsOld, CalmIsNow, ClaudeTellsTheTruth, NoRefresh, NoRow
<1>5. QED
  BY <1>1, <1>3, <1>4 DEF ClaudeInv

LEMMA HeadIsRead ==
  ASSUME NEW s \in Seq(Kinds)
  PROVE  /\ DOMAIN HeadOf(s) \subseteq DOMAIN s
         /\ Len(s) < HeadRecords => DOMAIN HeadOf(s) = DOMAIN s
<1> DEFINE n == IF Len(s) > HeadRecords THEN HeadRecords ELSE Len(s)
<1>1. Len(s) \in Nat /\ HeadRecords \in Nat /\ DOMAIN s = 1 .. Len(s)
  BY ClaudeAssumption
<1>2. n \in Nat /\ n <= Len(s) /\ (Len(s) < HeadRecords => n = Len(s))
  <2>1. \A k, h \in Nat : LET m == IF k > h THEN h ELSE k
                           IN  m \in Nat /\ m <= k /\ (k < h => m = k)
    OBVIOUS
  <2>2. QED
    BY <1>1, <2>1
<1>3. HeadOf(s) = SubSeq(s, 1, n)
  BY DEF HeadOf
<1> HIDE DEF n
<1>4. \A i \in 1 .. n : i \in 1 .. Len(s) /\ s[i] \in Kinds
  <2>1. \A k, m \in Nat : m <= k => \A i \in 1 .. m : i \in 1 .. k
    OBVIOUS
  <2>2. \A i \in 1 .. n : i \in 1 .. Len(s)
    BY <1>1, <1>2, <2>1
  <2>3. \A i \in 1 .. Len(s) : s[i] \in Kinds
    OBVIOUS
  <2>4. QED
    BY <2>2, <2>3
<1>5. HeadOf(s) \in Seq(Kinds) /\ Len(HeadOf(s)) = IF 1 <= n THEN n - 1 + 1 ELSE 0
  BY <1>2, <1>3, <1>4, SubSeqProperties
<1>6. DOMAIN HeadOf(s) = 1 .. n
  BY <1>2, <1>5
<1>7. DOMAIN HeadOf(s) \subseteq DOMAIN s
  BY <1>1, <1>4, <1>6
<1>8. QED
  BY <1>1, <1>2, <1>6, <1>7

\* A step of the process.
LEMMA DisturbedKeeps ==
  ASSUME ClaudeInv, ProcessInv', Disturbed,
         \A c \in ClaudeSessions :
           \/ transcript'[c] = transcript[c]
           \/ \E r \in Kinds : transcript'[c] = Append(transcript[c], r)
  PROVE  ClaudeInv'
<1> USE DEF ClaudeInv
<1>1. /\ refresh' = [refresh EXCEPT !.calm = FALSE] /\ row' = NoRow
      /\ latched' = latched /\ remembered' = remembered
  BY DEF Disturbed, monitorVars
<1>2. /\ refresh'.step = refresh.step /\ refresh'.found = refresh.found /\ refresh'.length = refresh.length
      /\ refresh'.calm = FALSE
  BY <1>1 DEF MonitorTypeOK
<1>3. ASSUME NEW c \in ClaudeSessions
      PROVE  /\ transcript[c] \in Seq(Kinds) /\ Len(transcript[c]) \in Nat
             /\ HasWork(transcript[c]) => HasWork(transcript'[c])
             /\ transcript'[c] = transcript[c] \/ Len(transcript'[c]) = Len(transcript[c]) + 1
  <2>1. transcript[c] \in Seq(Kinds)
    BY DEF ProcessInv, ProcessTypeOK
  <2>2. CASE transcript'[c] = transcript[c]
    BY <2>1, <2>2
  <2>3. ASSUME NEW r \in Kinds, transcript'[c] = Append(transcript[c], r)
        PROVE  /\ Len(transcript'[c]) = Len(transcript[c]) + 1
               /\ HasWork(transcript[c]) => HasWork(transcript'[c])
    BY <2>1, <2>3, RecordAppended
  <2>4. QED
    BY <2>1, <2>2, <2>3
<1>4. MonitorTypeOK'
  <2>1. refresh' \in [step : {"none", "listed", "registered", "stat"}, start : Nat,
                     found : Registration \union {Nothing}, length : Nat, calm : BOOLEAN]
    BY <1>1 DEF MonitorTypeOK
  <2>2. QED
    BY <1>1, <2>1 DEF MonitorTypeOK
<1>5. MemoryIsTrue'
  <2>1. \A c \in latched' : HasWork(transcript'[c])
    BY <1>1, <1>3 DEF MemoryIsTrue, MonitorTypeOK
  <2>2. ASSUME NEW c \in ClaudeSessions, remembered'[c] # Nothing
        PROVE  /\ remembered'[c].length <= Len(transcript'[c])
               /\ remembered'[c].length = Len(transcript'[c]) => remembered'[c].outcome = OutcomeOf(transcript'[c])
               /\ remembered'[c].outcome # "hidden" => HasWork(transcript'[c])
    <3>1. /\ remembered[c] # Nothing /\ remembered'[c] = remembered[c] /\ remembered[c].length \in Nat
          /\ remembered[c].length <= Len(transcript[c])
          /\ remembered[c].length = Len(transcript[c]) => remembered[c].outcome = OutcomeOf(transcript[c])
          /\ remembered[c].outcome # "hidden" => HasWork(transcript[c])
      BY <1>1, <2>2 DEF MemoryIsTrue, MonitorTypeOK, Memory
    <3>2. QED
      BY <1>3, <3>1
  <2>3. QED
    BY <2>1, <2>2 DEF MemoryIsTrue
<1>6. SignatureIsOld'
  <2> SUFFICES ASSUME refresh.step = "stat", refresh.found # Nothing
               PROVE  refresh.length <= Len(transcript'[refresh.found.session])
    BY <1>2 DEF SignatureIsOld
  <2>1. refresh.found.session \in ClaudeSessions /\ refresh.length \in Nat
    BY DEF MonitorTypeOK, Registration
  <2>2. refresh.length <= Len(transcript[refresh.found.session])
    BY DEF SignatureIsOld
  <2>3. QED
    BY <1>3, <2>1, <2>2
<1>7. CalmIsNow' /\ ClaudeTellsTheTruth'
  BY <1>1, <1>2 DEF CalmIsNow, ClaudeTellsTheTruth, NoRow
<1>8. QED
  BY <1>4, <1>5, <1>6, <1>7

\* What reading a transcript, or its memory, proves.
LEMMA ReadingTells ==
  ASSUME ProcessInv, MonitorTypeOK, MemoryIsTrue, NEW c \in ClaudeSessions
  PROVE  /\ ReadOutcome(c) \in Finding
         /\ ReadOutcome(c) # "hidden" => HasWork(transcript[c])
         /\ ProvesWork(c) => HasWork(transcript[c])
         /\ refresh.length = Len(transcript[c]) =>
              /\ ReadOutcome(c) = OutcomeOf(transcript[c])
              /\ EndsWithWork(transcript[c]) => ProvesWork(c)
<1> DEFINE s == transcript[c]
           cached == remembered[c] # Nothing /\ remembered[c].length = refresh.length
<1>1. /\ s \in Seq(Kinds) /\ Len(s) \in Nat /\ HeadRecords \in Nat /\ HeadRecords # 0
      /\ DOMAIN s = 1 .. Len(s)
  BY ClaudeAssumption DEF ProcessInv, ProcessTypeOK
<1>2. remembered[c] # Nothing =>
        /\ remembered[c] \in Memory
        /\ remembered[c].length = Len(s) => remembered[c].outcome = OutcomeOf(s)
        /\ remembered[c].outcome # "hidden" => HasWork(s)
  BY DEF MonitorTypeOK, MemoryIsTrue
<1>3. ReadOutcome(c) = IF cached THEN remembered[c].outcome ELSE OutcomeOf(s)
  BY DEF ReadOutcome
<1>4. c \in latched => HasWork(s)
  BY DEF MemoryIsTrue
<1>5. HeadProves(c) <=> c \in latched \/ \E i \in DOMAIN HeadOf(s) : IsWork(s[i])
  BY DEF HeadProves
<1> HIDE DEF s
<1>6. /\ OutcomeOf(s) \in Finding
      /\ OutcomeOf(s) # "hidden" => HasWork(s)
      /\ EndsWithWork(s) => OutcomeOf(s) # "hidden"
  BY <1>1, OutcomeIsFound DEF Finding
<1>7. ReadOutcome(c) \in Finding /\ (ReadOutcome(c) # "hidden" => HasWork(s))
  BY <1>2, <1>3, <1>6 DEF Memory
<1>8. HeadProves(c) => HasWork(s)
  <2>1. DOMAIN HeadOf(s) \subseteq DOMAIN s
    BY <1>1, HeadIsRead
  <2>2. QED
    BY <1>4, <1>5, <2>1 DEF HasWork
<1>9. ProvesWork(c) <=> HeadProves(c) \/ (NeedsTail(c) /\ ReadOutcome(c) # "hidden")
  BY DEF ProvesWork
<1>10. ASSUME refresh.length = Len(s)
       PROVE  ReadOutcome(c) = OutcomeOf(s) /\ (EndsWithWork(s) => ProvesWork(c))
  <2>1. ReadOutcome(c) = OutcomeOf(s)
    BY <1>2, <1>3, <1>10
  <2>2. ASSUME EndsWithWork(s), ~HeadProves(c) PROVE NeedsTail(c)
    <3>1. ASSUME Len(s) < HeadRecords PROVE FALSE
      <4>1. DOMAIN HeadOf(s) = 1 .. Len(s)
        BY <1>1, <3>1, HeadIsRead
      <4>2. Len(s) \in 1 .. Len(s) /\ IsWork(s[Len(s)])
        <5>1. Len(s) # 0
          BY <1>1, <2>2, EmptySeq DEF EndsWithWork
        <5>2. QED
          BY <1>1, <2>2, <5>1 DEF EndsWithWork
      <4>3. QED
        BY <1>5, <2>2, <4>1, <4>2
    <3>2. Len(s) >= HeadRecords
      BY <1>1, <3>1
    <3>3. QED
      BY <2>2, <3>2 DEF NeedsTail, s
  <2>3. QED
    BY <1>6, <1>9, <2>1, <2>2
<1>11. QED
  BY <1>7, <1>8, <1>9, <1>10 DEF s

\* What is shown of a registered process at rest is a truth.
LEMMA TruthIsShown ==
  ASSUME ProcessInv, IsSettled, IsRegistered, NEW read, NEW proven \in BOOLEAN,
         read = OutcomeOf(transcript[claude.session]),
         proven => HasWork(transcript[claude.session]),
         EndsWithWork(transcript[claude.session]) => proven
  PROVE  (IF claude.status \notin Working THEN read
          ELSE IF proven THEN Shown(claude.status) ELSE "hidden") \in Truths
<1> DEFINE current == claude.session
           s       == transcript[current]
           newest  == outcome[current]
           unclear == newest = "unknown" \/ (~claude.open /\ Last(s) = "note")
           hidden  == IF unclear THEN {"hidden"} ELSE {}
           shown   == IF claude.status \notin Working THEN read
                      ELSE IF proven THEN Shown(claude.status) ELSE "hidden"
<1>1. claude.status # "dead" /\ current \in ClaudeSessions /\ Full(current) = s
  BY SettledIsFull DEF IsRegistered, ProcessInv, RegistrationIsTrue, IsSettled
<1>2. /\ s \in Seq(Kinds) /\ newest \in {"hidden", "open", "success", "failure", "unknown"}
      /\ claude.status \in Statuses
  BY <1>1 DEF ProcessInv, ProcessTypeOK
<1>3. /\ newest = "hidden" => ~HasWork(s)
      /\ newest = "open" => claude.open
      /\ newest = "success" => EndsWell(s, TRUE)
      /\ newest = "failure" => EndsWell(s, FALSE)
      /\ claude.open => EndsWithWork(s)
  BY <1>1 DEF ProcessInv, OutcomesAreTrue
<1>4. claude.status \notin Working => ~claude.open
  BY <1>2 DEF ProcessInv, RegistrationIsTrue, Working, Statuses
<1>5. Truths = IF newest = "hidden" THEN {"hidden"}
               ELSE IF claude.status \in Working THEN {Shown(claude.status)} \union hidden
               ELSE (IF newest = "unknown" THEN {"success", "failure"} ELSE {newest}) \union hidden
  BY DEF Truths
<1> HIDE DEF newest, s
<1>6. /\ read \in Finding
      /\ read # "hidden" => HasWork(s)
      /\ EndsWithWork(s) => read # "hidden" /\ proven
      /\ EndsWell(s, TRUE) => read \in {"hidden", "success"}
      /\ EndsWell(s, FALSE) => read \in {"hidden", "failure"}
      /\ proven => HasWork(s)
  BY <1>2, OutcomeIsFound DEF s, Finding
<1>7. newest \in {"success", "failure"} => EndsWithWork(s) \/ Last(s) = "note"
  <2> SUFFICES ASSUME newest \in {"success", "failure"} PROVE EndsWithWork(s) \/ Last(s) = "note"
    OBVIOUS
  <2>1. PICK i \in DOMAIN s : IsWork(s[i])
    BY <1>3 DEF EndsWell
  <2>2. s # <<>> /\ Len(s) \in DOMAIN s
    BY <1>2, <2>1
  <2>3. s[Len(s)] \in Kinds
    BY <1>2, <2>2
  <2>4. QED
    BY <2>2, <2>3 DEF Last, EndsWithWork, IsWork, Kinds, Works
<1>8. CASE newest = "hidden"
  BY <1>3, <1>5, <1>6, <1>8
<1>9. CASE newest # "hidden" /\ claude.status \in Working
  <2>1. ~proven => unclear
    BY <1>2, <1>3, <1>6, <1>7, <1>9
  <2>2. shown = IF proven THEN Shown(claude.status) ELSE "hidden"
    BY <1>9
  <2>3. Truths = {Shown(claude.status)} \union hidden
    BY <1>5, <1>9
  <2> HIDE DEF unclear, shown
  <2>4. shown \in Truths
    BY <2>1, <2>2, <2>3
  <2>5. QED
    BY <2>4 DEF shown
<1>10. CASE newest # "hidden" /\ claude.status \notin Working
  <2>1. newest # "open" /\ ~claude.open
    BY <1>3, <1>4, <1>10
  <2>2. newest # "unknown" => EndsWithWork(s) \/ unclear
    BY <1>2, <1>7, <1>10, <2>1
  <2>3. read = "hidden" => unclear
    BY <1>6, <2>2
  <2>4. Truths = (IF newest = "unknown" THEN {"success", "failure"} ELSE {newest}) \union hidden
    BY <1>5, <1>10
  <2> HIDE DEF unclear
  <2>5. read \in Truths
    BY <1>2, <1>3, <1>6, <1>10, <2>1, <2>3, <2>4 DEF Finding
  <2>6. QED
    BY <1>10, <2>5
<1>11. QED
  BY <1>8, <1>9, <1>10

\* The row of a refresh.
LEMMA RowShownKeeps ==
  ASSUME ClaudeInv, RowShown
  PROVE  MonitorTypeOK' /\ MemoryIsTrue' /\ ClaudeTellsTheTruth'
<1> USE DEF ClaudeInv
<1>1. /\ refresh.step = "stat" /\ refresh' = NoRefresh
      /\ claude' = claude /\ registration' = registration /\ transcript' = transcript
      /\ outcome' = outcome
  BY DEF RowShown, cliVars
<1>2. /\ refresh.found \in Registration \union {Nothing} /\ refresh.length \in Nat
      /\ refresh.calm => refresh.found = IF IsRegistered THEN registration ELSE Nothing
  BY <1>1 DEF MonitorTypeOK, CalmIsNow
<1>3. refresh' \in [step : {"none", "listed", "registered", "stat"}, start : Nat,
                   found : Registration \union {Nothing}, length : Nat, calm : BOOLEAN]
  BY <1>1 DEF NoRefresh
<1>4. Truths' = Truths /\ (IsSettled' <=> IsSettled)
  BY <1>1 DEF Truths, IsRegistered, IsSettled
<1>5. CASE refresh.found = Nothing
  <2>1. row' = [NoRow EXCEPT !.calm = refresh.calm] /\ latched' = latched /\ remembered' = remembered
    BY <1>5 DEF RowShown, monitorVars
  <2>2. row'.calm = refresh.calm /\ row'.status = "hidden"
    BY <2>1 DEF NoRow
  <2>3. MonitorTypeOK'
    BY <1>3, <2>1 DEF MonitorTypeOK
  <2>4. MemoryIsTrue'
    BY <1>1, <2>1 DEF MemoryIsTrue
  <2>5. ClaudeTellsTheTruth'
    <3> SUFFICES ASSUME refresh.calm, IsSettled PROVE "hidden" \in Truths
      BY <1>4, <2>2 DEF ClaudeTellsTheTruth
    <3>1. ~IsRegistered
      BY <1>2, <1>5 DEF IsRegistered
    <3>2. QED
      BY <3>1 DEF Truths
  <2>6. QED
    BY <2>3, <2>4, <2>5
<1>6. CASE refresh.found # Nothing
  <2> DEFINE c      == refresh.found.session
             s      == transcript[c]
             open   == refresh.found.status \in Working
             proven == ProvesWork(c)
             read   == ReadOutcome(c)
             entry  == [length |-> refresh.length, outcome |-> read]
             status == IF ~open THEN read ELSE IF proven THEN Shown(refresh.found.status) ELSE "hidden"
  <2>1. /\ row' = [session |-> c, calm |-> refresh.calm, status |-> status]
        /\ latched' = IF open /\ proven THEN latched \union {c} ELSE latched
        /\ remembered' = IF open /\ ~NeedsTail(c) THEN remembered
                         ELSE [remembered EXCEPT ![c] = entry]
    BY <1>6 DEF RowShown
  <2>2. c \in ClaudeSessions
    BY <1>2, <1>6 DEF Registration
  <2>3. refresh.length <= Len(s)
    BY <1>1, <1>6 DEF SignatureIsOld
  <2>4. /\ read \in Finding
        /\ read # "hidden" => HasWork(s)
        /\ proven => HasWork(s)
        /\ refresh.length = Len(s) => read = OutcomeOf(s) /\ (EndsWithWork(s) => proven)
    BY <2>2, ReadingTells
  <2>5. entry \in Memory /\ entry.length = refresh.length /\ entry.outcome = read
    BY <1>2, <2>4 DEF Memory
  <2>6. row'.calm = refresh.calm /\ row'.status = status
    BY <2>1
  <2> HIDE DEF c, s, read, entry, status, proven
  <2>7. MonitorTypeOK'
    <3>1. latched' \in SUBSET ClaudeSessions
      BY <2>1, <2>2 DEF MonitorTypeOK
    <3>2. remembered' \in [ClaudeSessions -> Memory \union {Nothing}]
      BY <2>1, <2>2, <2>5 DEF MonitorTypeOK
    <3>3. QED
      BY <1>3, <3>1, <3>2 DEF MonitorTypeOK
  <2>8. MemoryIsTrue'
    <3>1. \A d \in latched' : HasWork(transcript'[d])
      BY <1>1, <2>1, <2>4 DEF MemoryIsTrue, s
    <3>2. ASSUME NEW d \in ClaudeSessions, remembered'[d] # Nothing
          PROVE  /\ remembered'[d].length <= Len(transcript[d])
                 /\ remembered'[d].length = Len(transcript[d]) => remembered'[d].outcome = OutcomeOf(transcript[d])
                 /\ remembered'[d].outcome # "hidden" => HasWork(transcript[d])
      <4>1. remembered'[d] = remembered[d] \/ (d = c /\ remembered'[d] = entry)
        BY <2>1, <2>2 DEF MonitorTypeOK
      <4>2. CASE remembered'[d] = remembered[d]
        BY <3>2, <4>2 DEF MemoryIsTrue
      <4>3. CASE d = c /\ remembered'[d] = entry
        BY <2>3, <2>4, <2>5, <4>3 DEF s
      <4>4. QED
        BY <4>1, <4>2, <4>3
    <3>3. QED
      BY <1>1, <3>1, <3>2 DEF MemoryIsTrue
  <2>9. ClaudeTellsTheTruth'
    <3> SUFFICES ASSUME refresh.calm, IsSettled PROVE status \in Truths
      BY <1>4, <2>6 DEF ClaudeTellsTheTruth
    <3>1. IsRegistered /\ refresh.found = registration
      BY <1>2, <1>6
    <3>2. c = claude.session /\ refresh.found.status = claude.status
      BY <3>1 DEF c, IsRegistered, IsSettled, ProcessInv, RegistrationIsTrue
    <3>3. refresh.length = Len(s)
      BY <1>1, <1>6 DEF CalmIsNow, c, s
    <3>4. proven \in BOOLEAN
      BY DEF proven, ProvesWork, HeadProves, NeedsTail
    <3>5. s = transcript[claude.session]
      BY <3>2 DEF s
    <3>6. (IF claude.status \notin Working THEN read
           ELSE IF proven THEN Shown(claude.status) ELSE "hidden") \in Truths
      BY <2>4, <3>1, <3>3, <3>4, <3>5, TruthIsShown
    <3>7. QED
      BY <3>2, <3>6 DEF status
  <2>10. QED
    BY <2>7, <2>8, <2>9
<1>7. QED
  BY <1>5, <1>6

LEMMA RefreshKeeps ==
  ASSUME ClaudeInv, ProcessInv', ClaudeRefresh
  PROVE  ClaudeInv'
<1> USE DEF ClaudeInv
<1>1. /\ claude' = claude /\ registration' = registration /\ transcript' = transcript
      /\ outcome' = outcome
  BY DEF ClaudeRefresh, ProcessesListed, RegistrationRead, TranscriptStat, RowShown, cliVars
<1>2. Truths' = Truths /\ (IsSettled' <=> IsSettled) /\ (IsRegistered' <=> IsRegistered)
  BY <1>1 DEF Truths, IsRegistered, IsSettled
<1>3. ASSUME latched' = latched, remembered' = remembered, row' = row
      PROVE  MemoryIsTrue' /\ ClaudeTellsTheTruth'
  BY <1>1, <1>2, <1>3 DEF MemoryIsTrue, ClaudeTellsTheTruth
<1>4. claude.start \in Nat /\ registration \in Registration \union {Nothing}
  BY DEF ProcessInv, ProcessTypeOK
<1>5. CASE ProcessesListed
  <2>1. /\ latched' = latched /\ remembered' = remembered /\ row' = row
        /\ refresh' = [NoRefresh EXCEPT !.step = "listed", !.calm = TRUE,
                          !.start = IF claude.status = "dead" THEN 0 ELSE claude.start]
    BY <1>5 DEF ProcessesListed, monitorVars
  <2>2. /\ refresh' \in [step : {"none", "listed", "registered", "stat"}, start : Nat,
                         found : Registration \union {Nothing}, length : Nat, calm : BOOLEAN]
        /\ refresh'.step = "listed"
        /\ refresh'.start = IF claude.status = "dead" THEN 0 ELSE claude.start
    BY <1>4, <2>1 DEF NoRefresh
  <2>3. MonitorTypeOK'
    BY <2>1, <2>2 DEF MonitorTypeOK
  <2>4. SignatureIsOld' /\ CalmIsNow'
    BY <1>1, <2>2 DEF SignatureIsOld, CalmIsNow
  <2>5. QED
    BY <1>3, <2>1, <2>3, <2>4
<1>6. CASE RegistrationRead
  <2> DEFINE found == IF refresh.start # 0 /\ Matches(registration, refresh.start)
                      THEN registration ELSE Nothing
  <2>1. /\ refresh.step = "listed" /\ latched' = latched /\ remembered' = remembered /\ row' = row
        /\ refresh' = [refresh EXCEPT !.step = "registered", !.found = found]
    BY <1>6 DEF RegistrationRead, monitorVars
  <2>2. found \in Registration \union {Nothing}
    BY <1>4
  <2>3. refresh.calm => found = IF IsRegistered THEN registration ELSE Nothing
    <3> SUFFICES ASSUME refresh.calm PROVE found = IF IsRegistered THEN registration ELSE Nothing
      OBVIOUS
    <3>1. refresh.start = IF claude.status = "dead" THEN 0 ELSE claude.start
      BY <2>1 DEF CalmIsNow
    <3>2. claude.status # "dead" => claude.start # 0
      BY <1>4 DEF ProcessInv, RegistrationIsTrue
    <3>3. QED
      BY <3>1, <3>2 DEF Matches, IsRegistered
  <2> HIDE DEF found
  <2>4. /\ refresh' \in [step : {"none", "listed", "registered", "stat"}, start : Nat,
                         found : Registration \union {Nothing}, length : Nat, calm : BOOLEAN]
        /\ refresh'.step = "registered" /\ refresh'.found = found /\ refresh'.calm = refresh.calm
    BY <2>1, <2>2 DEF MonitorTypeOK
  <2>5. MonitorTypeOK'
    BY <2>1, <2>4 DEF MonitorTypeOK
  <2>6. SignatureIsOld' /\ CalmIsNow'
    BY <1>1, <1>2, <2>3, <2>4 DEF SignatureIsOld, CalmIsNow
  <2>7. QED
    BY <1>3, <2>1, <2>5, <2>6
<1>7. CASE TranscriptStat
  <2> DEFINE length == IF refresh.found = Nothing THEN 0 ELSE Len(transcript[refresh.found.session])
  <2>1. /\ refresh.step = "registered" /\ latched' = latched /\ remembered' = remembered /\ row' = row
        /\ refresh' = [refresh EXCEPT !.step = "stat", !.length = length]
    BY <1>7 DEF TranscriptStat, monitorVars
  <2>2. refresh.found # Nothing =>
          refresh.found.session \in ClaudeSessions /\ Len(transcript[refresh.found.session]) \in Nat
    BY DEF MonitorTypeOK, Registration, ProcessInv, ProcessTypeOK
  <2>3. length \in Nat /\ (refresh.found # Nothing => length = Len(transcript[refresh.found.session]))
    BY <2>2
  <2> HIDE DEF length
  <2>4. /\ refresh' \in [step : {"none", "listed", "registered", "stat"}, start : Nat,
                         found : Registration \union {Nothing}, length : Nat, calm : BOOLEAN]
        /\ refresh'.step = "stat" /\ refresh'.found = refresh.found /\ refresh'.calm = refresh.calm
        /\ refresh'.length = length
    BY <2>1, <2>3 DEF MonitorTypeOK
  <2>5. MonitorTypeOK'
    BY <2>1, <2>4 DEF MonitorTypeOK
  <2>6. SignatureIsOld'
    BY <1>1, <2>3, <2>4 DEF SignatureIsOld
  <2>7. CalmIsNow'
    BY <1>1, <1>2, <2>1, <2>3, <2>4 DEF CalmIsNow
  <2>8. QED
    BY <1>3, <2>1, <2>5, <2>6, <2>7
<1>8. CASE RowShown
  <2>1. MonitorTypeOK' /\ MemoryIsTrue' /\ ClaudeTellsTheTruth'
    BY <1>8, RowShownKeeps
  <2>2. refresh' = NoRefresh
    BY <1>8 DEF RowShown
  <2>3. SignatureIsOld' /\ CalmIsNow'
    BY <2>2 DEF SignatureIsOld, CalmIsNow, NoRefresh
  <2>4. QED
    BY <2>1, <2>3
<1>9. QED
  BY <1>5, <1>6, <1>7, <1>8 DEF ClaudeRefresh

\* The monitor (claude_state.py) shows what is true of the process after every
\* refresh during which it did nothing: through what it remembered of the
\* transcripts, across launches, sessions and resumed sessions.
THEOREM ClaudeIsShownTruly == ClaudeSpec => []ClaudeTellsTheTruth
<1>1. ClaudeInv /\ [ClaudeNext]_claudeVars => ClaudeInv'
  <2> SUFFICES ASSUME ClaudeInv, [ClaudeNext]_claudeVars PROVE ClaudeInv'
    OBVIOUS
  <2>1. ProcessInv'
    BY ProcessStep DEF ClaudeInv
  <2>2. CASE ClaudeRefresh
    BY <2>1, <2>2, RefreshKeeps
  <2>3. CASE UNCHANGED claudeVars
    BY <2>1, <2>3 DEF claudeVars, ClaudeInv, MonitorTypeOK, MemoryIsTrue, SignatureIsOld, CalmIsNow,
                      ClaudeTellsTheTruth, Truths, IsSettled, IsRegistered
  <2>4. CASE RecordWritten
    <3>1. /\ claude.record # Nothing /\ Disturbed
          /\ transcript' = [transcript EXCEPT ![claude.session] = Append(transcript[claude.session], claude.record)]
      BY <2>4 DEF RecordWritten
    <3>2. claude.record \in Kinds /\ DOMAIN transcript = ClaudeSessions
      BY <3>1 DEF ClaudeInv, ProcessInv, ProcessTypeOK
    <3>3. \A c \in ClaudeSessions :
            \/ transcript'[c] = transcript[c]
            \/ \E r \in Kinds : transcript'[c] = Append(transcript[c], r)
      BY <3>1, <3>2
    <3>4. QED
      BY <2>1, <3>1, <3>3, DisturbedKeeps
  <2>5. ASSUME Disturbed, transcript' = transcript PROVE ClaudeInv'
    BY <2>1, <2>5, DisturbedKeeps
  <2>6. ASSUME ClaudeActs, ~RecordWritten PROVE Disturbed /\ transcript' = transcript
    BY <2>6 DEF ClaudeActs, StatusWritten, Prompted, Notes, ProcessDies, Launches, Cleared,
                StartsUp, Advances, TurnOver, Decides
  <2>7. QED
    BY <2>2, <2>3, <2>4, <2>5, <2>6 DEF ClaudeNext
<1>2. ClaudeInv => ClaudeTellsTheTruth
  BY DEF ClaudeInv
<1>3. QED
  BY ClaudeInitially, <1>1, <1>2, PTL DEF ClaudeSpec

-----------------------------------------------------------------------------
(* MonitorService: commands, servers and the record between them           *)

ServiceTypeOK ==
  /\ pidFile \in ServicePids \union {NoPid}
  /\ program \in [ServicePids -> {"none", "other"} \union Server]
  /\ command \in [Commands -> [step : {"idle", "start", "stop", "wait"},
                               pid : ServicePids \union {NoPid}]]
  /\ overlapped \in BOOLEAN

InFlight(c) == command[c].step # "idle"
IsStarting(p) == program[p] \in Starting

\* One command or one server at a time is under way.
OneAtATime ==
  /\ \A c, d \in Commands : InFlight(c) /\ InFlight(d) => c = d
  /\ \A p, q \in ServicePids : IsStarting(p) /\ IsStarting(q) => p = q
  /\ \A c \in Commands, p \in ServicePids : ~(InFlight(c) /\ IsStarting(p))

\* What a command read is still the record, unless a server that left removed
\* it; and a server that found none, or recorded itself, is alone.
ReadsAreFresh ==
  \A c \in Commands : InFlight(c) =>
    /\ pidFile \in {command[c].pid, NoPid}
    /\ command[c].step = "wait" =>
         command[c].pid \in ServicePids /\ program[command[c].pid] # "serving"
StartersAreAlone ==
  \A p \in ServicePids :
    /\ program[p] \in {"free", "recorded"} => \A q \in ServicePids : program[q] # "serving"
    /\ program[p] = "recorded" => pidFile = p

RecordIsTrue == \A p \in ServicePids : program[p] = "serving" => pidFile = p

\* RunningServerIsRecorded is not inductive: that no command unlinks the file
\* of a server that serves rests on what the command read, and that no server
\* replaces it on what that server found.
ServiceInv ==
  /\ ServiceTypeOK
  /\ ~overlapped => OneAtATime /\ ReadsAreFresh /\ StartersAreAlone /\ RecordIsTrue

LEMMA ServiceInitially == ServiceInit => ServiceInv
  <1> SUFFICES ASSUME ServiceInit PROVE ServiceInv
    OBVIOUS
  <1>1. ServiceTypeOK
    BY DEF ServiceInit, ServiceTypeOK, Terminal
  <1>2. OneAtATime /\ ReadsAreFresh
    BY DEF ServiceInit, OneAtATime, ReadsAreFresh, InFlight, IsStarting, Terminal, Starting
  <1>3. StartersAreAlone /\ RecordIsTrue
    BY DEF ServiceInit, StartersAreAlone, RecordIsTrue
  <1> QED BY <1>1, <1>2, <1>3 DEF ServiceInv

LEMMA ServiceCommands ==
  ASSUME ServiceInv, NEW c \in Commands, CommandActs(c)
  PROVE  ServiceInv'
  <1> USE ServiceAssumption DEF ServiceInv, ServiceTypeOK, OneAtATime, ReadsAreFresh,
        StartersAreAlone, RecordIsTrue, InFlight, IsStarting, Terminal, Starting, Server,
        WithoutStale, IsServer, IsQuiet
  <1>1. CASE StartReads(c) \/ StopReads(c)
    <2>1. ServiceTypeOK'
      <3>1. overlapped' \in BOOLEAN
        BY <1>1 DEF StartReads, StopReads
      <3>2. command' \in [Commands -> [step : {"idle", "start", "stop", "wait"},
                                       pid : ServicePids \union {NoPid}]]
        BY <1>1 DEF StartReads, StopReads
      <3>3. UNCHANGED <<pidFile, program>>
        BY <1>1 DEF StartReads, StopReads
      <3> QED BY <3>1, <3>2, <3>3
    <2>2. ~overlapped' => ~overlapped /\ IsQuiet
      BY <1>1 DEF StartReads, StopReads
    <2>3. ~overlapped' => OneAtATime'
      BY <1>1, <2>2 DEF StartReads, StopReads
    <2>4. ~overlapped' => ReadsAreFresh'
      BY <1>1, <2>2 DEF StartReads, StopReads
    <2>5. ~overlapped' => (StartersAreAlone /\ RecordIsTrue)'
      BY <1>1, <2>2 DEF StartReads, StopReads
    <2> QED BY <2>1, <2>3, <2>4, <2>5
  <1>2. CASE AlreadyRunning(c) \/ StopGivesUp(c)
    BY <1>2 DEF AlreadyRunning, StopGivesUp
  <1>3. CASE StopFindsStale(c)
    BY <1>3 DEF StopFindsStale
  <1>4. CASE StopKills(c)
    BY <1>4 DEF StopKills
  <1>5. CASE StopSeesDeath(c)
    BY <1>5 DEF StopSeesDeath
  <1> QED BY <1>1, <1>2, <1>3, <1>4, <1>5 DEF CommandActs

LEMMA ServiceLaunches ==
  ASSUME ServiceInv, NEW p \in ServicePids,
         ServeLaunched(p) \/ \E c \in Commands : DaemonLaunched(c, p)
  PROVE  ServiceInv'
  <1> USE ServiceAssumption DEF ServiceInv, ServiceTypeOK, OneAtATime, ReadsAreFresh,
        StartersAreAlone, RecordIsTrue, InFlight, IsStarting, Terminal, Starting, Server,
        WithoutStale, IsServer, IsQuiet, NewServer, Unlinked
  <1>1. CASE ServeLaunched(p)
    BY <1>1 DEF ServeLaunched
  <1>2. CASE \E c \in Commands : DaemonLaunched(c, p)
    <2> PICK c \in Commands : DaemonLaunched(c, p)
      BY <1>2
    <2> QED BY SMTT(20) DEF DaemonLaunched
  <1> QED BY <1>1, <1>2

LEMMA ServiceServers ==
  ASSUME ServiceInv, NEW p \in ServicePids, ServerActs(p) \/ PidReused(p)
  PROVE  ServiceInv'
  <1> USE ServiceAssumption DEF ServiceInv, ServiceTypeOK, OneAtATime, ReadsAreFresh,
        StartersAreAlone, RecordIsTrue, InFlight, IsStarting, Starting, Server,
        WithoutStale, IsServer, Unlinked
  <1>1. CASE ServerFindsNone(p)
    BY <1>1 DEF ServerFindsNone
  <1>2. CASE ServerRefuses(p)
    BY <1>2 DEF ServerRefuses
  <1>3. CASE ServerRecorded(p)
    BY <1>3 DEF ServerRecorded
  <1>4. CASE ServerBinds(p)
    BY <1>4 DEF ServerBinds
  <1>5. CASE ServerInterrupted(p)
    BY <1>5 DEF ServerInterrupted
  <1>6. CASE ServerLeaves(p)
    BY <1>6 DEF ServerLeaves
  <1>7. CASE ServerDies(p)
    BY <1>7 DEF ServerDies
  <1>8. CASE PidReused(p)
    BY <1>8 DEF PidReused
  <1> QED BY <1>1, <1>2, <1>3, <1>4, <1>5, <1>6, <1>7, <1>8 DEF ServerActs

LEMMA ServiceSteps == ServiceInv /\ [ServiceNext]_serviceVars => ServiceInv'
  <1> SUFFICES ASSUME ServiceInv, [ServiceNext]_serviceVars PROVE ServiceInv'
    OBVIOUS
  <1>1. CASE PortChanges
    BY <1>1 DEF PortChanges, ServiceInv, ServiceTypeOK, OneAtATime, ReadsAreFresh,
       StartersAreAlone, RecordIsTrue, InFlight, IsStarting
  <1>2. CASE UNCHANGED serviceVars
    BY <1>2 DEF serviceVars, ServiceInv, ServiceTypeOK, OneAtATime, ReadsAreFresh,
       StartersAreAlone, RecordIsTrue, InFlight, IsStarting
  <1> QED
    BY <1>1, <1>2, ServiceCommands, ServiceLaunches, ServiceServers DEF ServiceNext

\* For any number of commands, servers and pids: as long as commands were run
\* one after the other, the server that serves is the one the pid file names.
THEOREM RecordedServer == ServiceSpec => []RunningServerIsRecorded
  <1>1. ServiceInv => RunningServerIsRecorded
    BY DEF ServiceInv, RecordIsTrue, RunningServerIsRecorded
  <1> QED BY <1>1, ServiceInitially, ServiceSteps, PTL DEF ServiceSpec

-----------------------------------------------------------------------------
(* HookInstaller: what the user wrote, for any number of installers        *)

Contents == {Missing, Malformed} \union {Holding(groups) : groups \in SUBSET Group}
ForeignGroups(groups) == {<<g.event, g.foreign>> : g \in {h \in groups : h.foreign # {}}}

-----------------------------------------------------------------------------
(* What the operations make of the groups                                  *)

LEMMA StrippedGroup ==
  ASSUME NEW g \in Group
  PROVE  Stripped(g) \in Group /\ Stripped(g).event = g.event /\ Stripped(g).foreign = g.foreign
  BY DEF Stripped, Group

\* The removal of the monitor's handlers keeps the groups of the user.
LEMMA WithoutOursKeepsForeign ==
  ASSUME NEW groups \in SUBSET Group
  PROVE  /\ WithoutOurs(groups) \in SUBSET Group
         /\ ForeignGroups(WithoutOurs(groups)) = ForeignGroups(groups)
  <1>1. WithoutOurs(groups) \in SUBSET Group
    BY StrippedGroup DEF WithoutOurs
  <1>2. ASSUME NEW g \in groups, g.foreign # {}
        PROVE  Stripped(g) \in WithoutOurs(groups)
    BY <1>2 DEF WithoutOurs, IsKept
  <1>3. ForeignGroups(groups) \subseteq ForeignGroups(WithoutOurs(groups))
    BY <1>2, StrippedGroup DEF ForeignGroups
  <1>4. ForeignGroups(WithoutOurs(groups)) \subseteq ForeignGroups(groups)
    BY StrippedGroup DEF ForeignGroups, WithoutOurs
  <1> QED BY <1>1, <1>3, <1>4

LEMMA ForeignOfUnion ==
  ASSUME NEW S, NEW T
  PROVE  ForeignGroups(S \union T) = ForeignGroups(S) \union ForeignGroups(T)
  BY DEF ForeignGroups

\* What install_hooks removes and adds has no handler of the user.
LEMMA InstalledKeepsForeign ==
  ASSUME NEW groups \in SUBSET Group, NEW c \in Checkouts, NEW tools \in BOOLEAN
  PROVE  /\ Installed(groups, c, tools) \in SUBSET Group
         /\ ForeignGroups(Installed(groups, c, tools)) = ForeignGroups(groups)
  <1> DEFINE other == {g \in groups : g.event \notin AllHookEvents}
             known == {g \in groups : g.event \in AllHookEvents}
             added == {OurGroup(event, c) : event \in Selected(tools)}
  <1>1. WithoutOurs(known) \in SUBSET Group
        /\ ForeignGroups(WithoutOurs(known)) = ForeignGroups(known)
    BY WithoutOursKeepsForeign
  <1>2. added \in SUBSET Group
    BY DEF OurGroup, Group, Selected, Events
  <1>3. ForeignGroups(added) = {}
    BY DEF ForeignGroups, OurGroup
  <1>4. groups = other \union known
    OBVIOUS
  <1>5. Installed(groups, c, tools) = (other \union WithoutOurs(known)) \union added
    BY DEF Installed
  <1> HIDE DEF other, known, added
  <1>6. ForeignGroups(groups) = ForeignGroups(other) \union ForeignGroups(known)
    BY <1>4, ForeignOfUnion
  <1>7. ForeignGroups(Installed(groups, c, tools))
          = (ForeignGroups(other) \union ForeignGroups(WithoutOurs(known))) \union ForeignGroups(added)
    <2>1. ForeignGroups(other \union WithoutOurs(known))
            = ForeignGroups(other) \union ForeignGroups(WithoutOurs(known))
      BY ForeignOfUnion
    <2>2. ForeignGroups((other \union WithoutOurs(known)) \union added)
            = ForeignGroups(other \union WithoutOurs(known)) \union ForeignGroups(added)
      BY ForeignOfUnion
    <2> QED BY <1>5, <2>1, <2>2
  <1> QED BY <1>1, <1>2, <1>3, <1>4, <1>5, <1>6, <1>7

LEMMA ContentsHaveGroups ==
  ASSUME NEW contents \in Contents
  PROVE  /\ contents.groups \in SUBSET Group
         /\ contents.state = "malformed" => contents = Malformed
  BY DEF Contents, Missing, Malformed, Holding

LEMMA UpdatedKeepsForeign ==
  ASSUME NEW contents \in Contents, NEW op \in Operation, contents.state # "malformed"
  PROVE  /\ Updated(contents, op) \in Contents
         /\ ForeignPart(Updated(contents, op)) = ForeignPart(contents)
  <1>1. contents.groups \in SUBSET Group
    BY ContentsHaveGroups
  <1>2. ASSUME NEW groups \in SUBSET Group
        PROVE  /\ Holding(groups) \in Contents
               /\ ForeignPart(Holding(groups)) = [broken |-> FALSE, groups |-> ForeignGroups(groups)]
    BY DEF Holding, Contents, ForeignPart, ForeignGroups
  <1>3. ForeignPart(contents) = [broken |-> FALSE, groups |-> ForeignGroups(contents.groups)]
    BY DEF ForeignPart, ForeignGroups
  <1>4. CASE op.kind = "install"
    <2>1. op.checkout \in Checkouts /\ op.tools \in BOOLEAN
      BY <1>4 DEF Operation
    <2>2. Updated(contents, op) = Holding(Installed(contents.groups, op.checkout, op.tools))
      BY <1>4 DEF Updated
    <2> QED BY <1>1, <1>2, <1>3, <2>1, <2>2, InstalledKeepsForeign
  <1>5. CASE op.kind # "install"
    <2>1. Updated(contents, op) = Holding(WithoutOurs(contents.groups))
      BY <1>5 DEF Updated
    <2> QED BY <1>1, <1>2, <1>3, <2>1, WithoutOursKeepsForeign
  <1> QED BY <1>4, <1>5

-----------------------------------------------------------------------------
(* The invariant                                                           *)

InstallerTypeOK ==
  /\ config \in [Names -> Contents]
  /\ DOMAIN wanted = Names
  /\ raced \in SUBSET Names
  /\ run \in [Installers -> [step : {"idle", "backup", "replace"}, name : Names,
                             op : Operation \union {NoOperation}, updated : Contents]]

\* ForeignHooksSurvive is not inductive: what an installer has in hand must
\* hold the user's part too, unless the user has written since.
InHandIsForeign ==
  \A i \in Installers :
    run[i].step # "idle" /\ run[i].name \notin raced
      => ForeignPart(run[i].updated) = wanted[run[i].name]

InstallerInv == InstallerTypeOK /\ ForeignHooksSurvive /\ InHandIsForeign

LEMMA MissingIsContents == Missing \in Contents /\ Malformed \in Contents
  BY DEF Contents

LEMMA IdleIsRun ==
  Idle \in [step : {"idle", "backup", "replace"}, name : Names,
            op : Operation \union {NoOperation}, updated : Contents]
  BY MissingIsContents, InstallerAssumption DEF Idle, Names

LEMMA EditsAreContents ==
  ASSUME NEW groups \in SUBSET Group
  PROVE  Edits(groups) \subseteq Contents
  <1>1. ASSUME NEW gs \in SUBSET Group PROVE Holding(gs) \in Contents
    BY DEF Holding, Contents
  <1>2. {Missing, Malformed, Holding({})} \subseteq Contents
    BY <1>1, MissingIsContents
  <1>3. UserGroup \subseteq Group
    BY DEF UserGroup, Group
  <1>4. {Holding(groups \union {g}) : g \in UserGroup} \subseteq Contents
    BY <1>1, <1>3
  <1>5. {Holding(groups \ {g}) : g \in groups} \subseteq Contents
    BY <1>1
  <1>6. ASSUME NEW g \in groups PROVE Rewritten(groups, g) \subseteq Contents
    <2>1. ASSUME NEW hs \in SUBSET Foreign
          PROVE  (groups \ {g}) \union {[g EXCEPT !.foreign = hs]} \in SUBSET Group
      BY DEF Group
    <2> QED BY <1>1, <2>1 DEF Rewritten
  <1>7. UNION {Rewritten(groups, g) : g \in groups} \subseteq Contents
    BY <1>6
  <1> QED BY <1>2, <1>4, <1>5, <1>7 DEF Edits

LEMMA InstallerInitially == InstallerInit => InstallerInv
  <1> SUFFICES ASSUME InstallerInit PROVE InstallerInv
    OBVIOUS
  <1>1. InstallerTypeOK
    <2>1. Holding({}) \in Contents
      BY DEF Holding, Contents
    <2> QED BY <2>1, MissingIsContents, IdleIsRun DEF InstallerInit, InstallerTypeOK
  <1>2. ForeignHooksSurvive
    BY DEF InstallerInit, ForeignHooksSurvive
  <1>3. InHandIsForeign
    BY DEF InstallerInit, InHandIsForeign, Idle
  <1> QED BY <1>1, <1>2, <1>3 DEF InstallerInv

LEMMA UserStep ==
  ASSUME InstallerInv, NEW n \in Names, NEW contents \in Edits(config[n].groups),
         UserWrites(n, contents)
  PROVE  InstallerInv'
  <1>1. contents \in Contents
    BY EditsAreContents, ContentsHaveGroups DEF InstallerInv, InstallerTypeOK
  <1>2. InstallerTypeOK'
    BY <1>1 DEF InstallerInv, InstallerTypeOK, UserWrites
  <1>3. ForeignHooksSurvive'
    BY DEF InstallerInv, InstallerTypeOK, ForeignHooksSurvive, UserWrites
  <1>4. InHandIsForeign'
    BY DEF InstallerInv, InstallerTypeOK, InHandIsForeign, UserWrites
  <1> QED BY <1>2, <1>3, <1>4 DEF InstallerInv

LEMMA ReadStep ==
  ASSUME InstallerInv, NEW i \in Installers, NEW n \in Names, NEW op \in Operation,
         ConfigRead(i, n, op)
  PROVE  InstallerInv'
  <1>1. config[n] \in Contents /\ config[n].state # "malformed"
    BY ContentsHaveGroups DEF InstallerInv, InstallerTypeOK, ConfigRead
  <1>2. /\ Updated(config[n], op) \in Contents
        /\ ForeignPart(Updated(config[n], op)) = ForeignPart(config[n])
    BY <1>1, UpdatedKeepsForeign
  <1>3. UNCHANGED <<config, wanted, raced>>
    BY DEF ConfigRead
  <1>4. CASE UNCHANGED run
    BY <1>3, <1>4 DEF InstallerInv, InstallerTypeOK, ForeignHooksSurvive, InHandIsForeign
  <1>5. CASE run' = [run EXCEPT ![i] =
                       [step |-> IF config[n] = Missing THEN "replace" ELSE "backup",
                        name |-> n, op |-> op, updated |-> Updated(config[n], op)]]
    <2>1. InstallerTypeOK'
      BY <1>2, <1>3, <1>5 DEF InstallerInv, InstallerTypeOK
    <2>2. ForeignHooksSurvive'
      BY <1>3 DEF InstallerInv, ForeignHooksSurvive, ForeignPart
    <2>3. n \notin raced => ForeignPart(config[n]) = wanted[n]
      BY DEF InstallerInv, ForeignHooksSurvive
    <2>4. InHandIsForeign'
      BY <1>2, <1>3, <1>5, <2>3 DEF InstallerInv, InstallerTypeOK, InHandIsForeign
    <2> QED BY <2>1, <2>2, <2>4 DEF InstallerInv
  <1> QED BY <1>4, <1>5 DEF ConfigRead

\* The backup, the replace and a death write at most what was in hand.
LEMMA WriteStep ==
  ASSUME InstallerInv, NEW i \in Installers, BackedUp(i) \/ ConfigReplaced(i) \/ InstallerDies(i)
  PROVE  InstallerInv'
  <1>1. CASE BackedUp(i)
    BY <1>1 DEF BackedUp, InstallerInv, InstallerTypeOK, ForeignHooksSurvive, InHandIsForeign
  <1>2. CASE ConfigReplaced(i)
    <2>1. InstallerTypeOK'
      BY <1>2, IdleIsRun DEF ConfigReplaced, InstallerInv, InstallerTypeOK
    <2>2. ForeignHooksSurvive'
      BY <1>2 DEF ConfigReplaced, InstallerInv, InstallerTypeOK, ForeignHooksSurvive,
         InHandIsForeign
    <2>3. InHandIsForeign'
      BY <1>2 DEF ConfigReplaced, InstallerInv, InstallerTypeOK, InHandIsForeign, Idle
    <2> QED BY <2>1, <2>2, <2>3 DEF InstallerInv
  <1>3. CASE InstallerDies(i)
    <2>1. InstallerTypeOK'
      BY <1>3, IdleIsRun DEF InstallerDies, InstallerInv, InstallerTypeOK
    <2>2. (ForeignHooksSurvive /\ InHandIsForeign)'
      BY <1>3 DEF InstallerDies, InstallerInv, InstallerTypeOK, ForeignHooksSurvive,
         InHandIsForeign, Idle
    <2> QED BY <2>1, <2>2 DEF InstallerInv
  <1> QED BY <1>1, <1>2, <1>3

LEMMA InstallerSteps == InstallerInv /\ [InstallerNext]_installerVars => InstallerInv'
  <1> SUFFICES ASSUME InstallerInv, [InstallerNext]_installerVars PROVE InstallerInv'
    OBVIOUS
  <1>1. CASE UNCHANGED installerVars
    BY <1>1 DEF installerVars, InstallerInv, InstallerTypeOK, ForeignHooksSurvive,
       InHandIsForeign
  <1>2. CASE InstallerNext
    BY <1>2, UserStep, ReadStep, WriteStep DEF InstallerNext
  <1> QED BY <1>1, <1>2

\* Whatever installers do, in whatever number and order, and wherever they die,
\* a configuration file that the user did not write in between holds exactly
\* what the user wrote of its own.
THEOREM UserKeepsHooks == InstallerSpec => []ForeignHooksSurvive
  <1>1. InstallerInv => ForeignHooksSurvive
    BY DEF InstallerInv
  <1> QED BY <1>1, InstallerInitially, InstallerSteps, PTL DEF InstallerSpec

-----------------------------------------------------------------------------
(* The last operation                                                      *)

\* LastOperationHolds is not inductive either: what an installer has in hand
\* must be the result of its operation, and hooks of the monitor must not be
\* where install_hooks does not look for them.
Done(contents, op) ==
  IF op.kind = "install" THEN IsCurrent(contents, op.checkout, op.tools)
  ELSE \A event \in Events : Calls(contents, event) = {}
OursAreKnown(groups) == \A g \in groups : g.event \notin AllHookEvents => g.ours = {}
ResultInv ==
  /\ DOMAIN last = Names
  /\ \A n \in Names : OursAreKnown(config[n].groups)
  /\ \A n \in Names : last[n] # NoOperation => Done(config[n], last[n])
  /\ \A i \in Installers : run[i].step # "idle" =>
       OursAreKnown(run[i].updated.groups) /\ Done(run[i].updated, run[i].op)

LEMMA WithoutOursHasNone ==
  ASSUME NEW groups \in SUBSET Group, NEW g \in WithoutOurs(groups)
  PROVE  g.ours = {}
  BY DEF WithoutOurs, Stripped, Group

\* install_hooks leaves one call of this checkout at each event it selected and
\* no other hook of the monitor, whatever was there before.
LEMMA InstalledIsCurrent ==
  ASSUME NEW groups \in SUBSET Group, OursAreKnown(groups),
         NEW c \in Checkouts, NEW tools \in BOOLEAN
  PROVE  /\ OursAreKnown(Installed(groups, c, tools))
         /\ IsCurrent(Holding(Installed(groups, c, tools)), c, tools)
  <1> DEFINE installed == Installed(groups, c, tools)
             added == {OurGroup(event, c) : event \in Selected(tools)}
  <1>1. ASSUME NEW g \in installed, g \notin added
        PROVE  g.ours = {}
    <2>1. CASE g \in groups /\ g.event \notin AllHookEvents
      BY <2>1 DEF OursAreKnown
    <2>2. CASE g \in WithoutOurs({h \in groups : h.event \in AllHookEvents})
      BY <2>2, WithoutOursHasNone
    <2> QED BY <1>1, <2>1, <2>2 DEF Installed
  <1>2. ASSUME NEW event \in Selected(tools)
        PROVE  /\ OurGroup(event, c) \in installed
               /\ OurGroup(event, c).event = event /\ OurGroup(event, c).ours = {c}
               /\ event \in AllHookEvents /\ event \in Events
    BY DEF Installed, OurGroup, Selected, AllHookEvents, Events
  <1>3. Holding(installed).groups = installed /\ Holding(installed).state = "valid"
    BY DEF Holding
  <1>4. OursAreKnown(installed)
    BY <1>1, <1>2 DEF OursAreKnown
  <1> HIDE DEF installed
  <1>5. ASSUME NEW event \in Selected(tools)
        PROVE  \E g \in installed : Calls(Holding(installed), event) = {<<g, c>>}
    <2>1. ASSUME NEW g \in installed, NEW d \in Checkouts, g.event = event, d \in g.ours
          PROVE  g = OurGroup(event, c) /\ d = c
      <3>1. g \in added
        BY <1>1, <2>1
      <3>2. PICK e \in Selected(tools) : g = OurGroup(e, c)
        BY <3>1
      <3> QED BY <1>2, <2>1, <3>2
    <2>2. Calls(Holding(installed), event) = {<<OurGroup(event, c), c>>}
      BY <1>2, <1>3, <2>1 DEF Calls
    <2> QED BY <1>2, <2>2
  <1>6. ASSUME NEW event \in Events \ Selected(tools)
        PROVE  Calls(Holding(installed), event) = {}
    <2>1. ASSUME NEW g \in installed, g.event = event
          PROVE  g.ours = {}
      BY <1>1, <1>2, <2>1
    <2> QED BY <1>3, <2>1 DEF Calls
  <1>7. IsCurrent(Holding(installed), c, tools)
    BY <1>3, <1>5, <1>6 DEF IsCurrent
  <1> QED BY <1>4, <1>7 DEF installed

LEMMA UpdatedIsDone ==
  ASSUME NEW contents \in Contents, OursAreKnown(contents.groups), NEW op \in Operation
  PROVE  OursAreKnown(Updated(contents, op).groups) /\ Done(Updated(contents, op), op)
  <1>1. contents.groups \in SUBSET Group
    BY ContentsHaveGroups
  <1>2. CASE op.kind = "install"
    <2>1. op.checkout \in Checkouts /\ op.tools \in BOOLEAN
      BY <1>2 DEF Operation
    <2>2. Updated(contents, op) = Holding(Installed(contents.groups, op.checkout, op.tools))
      BY <1>2 DEF Updated
    <2> QED BY <1>1, <1>2, <2>1, <2>2, InstalledIsCurrent DEF Done, Holding
  <1>3. CASE op.kind # "install"
    <2>1. Updated(contents, op).groups = WithoutOurs(contents.groups)
      BY <1>3 DEF Updated, Holding
    <2>2. \A g \in WithoutOurs(contents.groups) : g.ours = {}
      BY <1>1, WithoutOursHasNone
    <2> QED BY <1>3, <2>1, <2>2 DEF Done, Calls, OursAreKnown
  <1> QED BY <1>2, <1>3

LEMMA EditsAddNoHooks ==
  ASSUME NEW groups \in SUBSET Group, OursAreKnown(groups), NEW contents \in Edits(groups)
  PROVE  OursAreKnown(contents.groups)
  <1>1. CASE contents \in {Missing, Malformed, Holding({})}
    BY <1>1 DEF Missing, Malformed, Holding, OursAreKnown
  <1>2. CASE contents \in {Holding(groups \union {g}) : g \in UserGroup}
    BY <1>2 DEF UserGroup, Holding, OursAreKnown
  <1>3. CASE contents \in {Holding(groups \ {g}) : g \in groups}
    BY <1>3 DEF Holding, OursAreKnown
  <1>4. ASSUME NEW g \in groups, contents \in Rewritten(groups, g)
        PROVE  OursAreKnown(contents.groups)
    <2> DEFINE rewritten(hs) == (groups \ {g}) \union {[g EXCEPT !.foreign = hs]}
    <2>1. Rewritten(groups, g) = {Holding(rewritten(hs)) : hs \in SUBSET Foreign}
      BY DEF Rewritten
    <2> HIDE DEF rewritten
    <2>2. PICK hs \in SUBSET Foreign : contents = Holding(rewritten(hs))
      BY <1>4, <2>1
    <2>3. contents.groups = (groups \ {g}) \union {[g EXCEPT !.foreign = hs]}
      BY <2>2 DEF Holding, rewritten
    <2>4. /\ [g EXCEPT !.foreign = hs].event = g.event
          /\ [g EXCEPT !.foreign = hs].ours = g.ours
      BY DEF Group
    <2> QED BY <2>3, <2>4 DEF OursAreKnown
  <1> QED BY <1>1, <1>2, <1>3, <1>4 DEF Edits

LEMMA ResultInitially == InstallerInit => ResultInv
  BY DEF InstallerInit, ResultInv, OursAreKnown, Missing, Malformed, Holding, Idle

LEMMA ResultSteps == InstallerInv /\ ResultInv /\ [InstallerNext]_installerVars => ResultInv'
  <1> SUFFICES ASSUME InstallerInv, ResultInv, [InstallerNext]_installerVars PROVE ResultInv'
    OBVIOUS
  <1>1. /\ config \in [Names -> Contents] /\ DOMAIN last = Names
        /\ run \in [Installers -> [step : {"idle", "backup", "replace"}, name : Names,
                                   op : Operation \union {NoOperation}, updated : Contents]]
    BY DEF InstallerInv, InstallerTypeOK, ResultInv
  <1>2. ASSUME NEW n \in Names, NEW contents \in Edits(config[n].groups),
               UserWrites(n, contents)
        PROVE  ResultInv'
    <2>1. OursAreKnown(contents.groups)
      BY <1>1, EditsAddNoHooks, ContentsHaveGroups DEF ResultInv
    <2> QED BY <1>1, <1>2, <2>1 DEF UserWrites, ResultInv
  <1>3. ASSUME NEW i \in Installers, NEW n \in Names, NEW op \in Operation,
               ConfigRead(i, n, op)
        PROVE  ResultInv'
    <2>1. /\ OursAreKnown(Updated(config[n], op).groups)
          /\ Done(Updated(config[n], op), op)
      BY <1>1, UpdatedIsDone DEF ResultInv
    <2>2. config' = config
      BY <1>3 DEF ConfigRead
    <2>3. CASE config[n] = Updated(config[n], op) /\ last' = [last EXCEPT ![n] = op]
               /\ UNCHANGED run
      BY <1>1, <2>1, <2>2, <2>3 DEF ResultInv
    <2>4. CASE run' = [run EXCEPT ![i] =
                         [step |-> IF config[n] = Missing THEN "replace" ELSE "backup",
                          name |-> n, op |-> op, updated |-> Updated(config[n], op)]]
               /\ UNCHANGED last
      BY <1>1, <2>1, <2>2, <2>4 DEF ResultInv
    <2> QED BY <1>3, <2>3, <2>4 DEF ConfigRead
  <1>4. ASSUME NEW i \in Installers, BackedUp(i) \/ InstallerDies(i)
        PROVE  ResultInv'
    <2>1. UNCHANGED <<config, last>>
          /\ \/ run' = [run EXCEPT ![i].step = "replace"] /\ run[i].step # "idle"
             \/ run' = [run EXCEPT ![i] = Idle]
      BY <1>4 DEF BackedUp, InstallerDies
    <2>2. ASSUME NEW j \in Installers, run'[j].step # "idle"
          PROVE  run[j].step # "idle" /\ run'[j].updated = run[j].updated /\ run'[j].op = run[j].op
      <3>1. CASE run' = [run EXCEPT ![i].step = "replace"] /\ run[i].step # "idle"
        BY <1>1, <2>2, <3>1
      <3>2. CASE run' = [run EXCEPT ![i] = Idle]
        BY <1>1, <2>2, <3>2 DEF Idle
      <3> QED BY <2>1, <3>1, <3>2
    <2> QED BY <2>1, <2>2 DEF ResultInv
  <1>5. ASSUME NEW i \in Installers, ConfigReplaced(i)
        PROVE  ResultInv'
    <2>1. /\ run[i].step # "idle" /\ run[i].name \in Names
          /\ config' = [config EXCEPT ![run[i].name] = run[i].updated]
          /\ last' = [last EXCEPT ![run[i].name] = run[i].op]
          /\ run' = [run EXCEPT ![i] = Idle]
      BY <1>1, <1>5 DEF ConfigReplaced
    <2>2. ASSUME NEW j \in Installers, run'[j].step # "idle"
          PROVE  run'[j] = run[j]
      BY <1>1, <2>1, <2>2 DEF Idle
    <2> QED BY <1>1, <2>1, <2>2 DEF ResultInv
  <1>6. CASE UNCHANGED installerVars
    BY <1>6 DEF installerVars, ResultInv
  <1> QED BY <1>2, <1>3, <1>4, <1>5, <1>6 DEF InstallerNext

\* The operation that finished last has its result, as check_hooks would find
\* it, though installers of several checkouts overlap, fail and die: unless the
\* user wrote since.
THEOREM InstallationsHold == InstallerSpec => []LastOperationHolds
  <1>1. ResultInv => LastOperationHolds
    BY DEF ResultInv, LastOperationHolds, Done
  <1> QED BY <1>1, InstallerInitially, InstallerSteps, ResultInitially, ResultSteps, PTL
          DEF InstallerSpec

-----------------------------------------------------------------------------
(* The loop over the sessions                                              *)

\* What the proof needs of the sessions and terminals a round reads.
DatesAreNumbers ==
  /\ now \in Nat
  /\ startedAt \in [Terminals -> Nat]
  /\ \A p \in Terminals : startedAt[p] <= now
  /\ worked \subseteq Sessions
  /\ createdAt \in [Sessions -> Nat]
  /\ attachedAt \in [Sessions -> Nat]
  /\ \A s \in Sessions : createdAt[s] <= now /\ attachedAt[s] <= now
  /\ openTurn \in [Sessions -> BOOLEAN]
  /\ driver \in [Sessions -> Terminals \union {NoTerminal}]

DatesDiffer ==
  /\ \A p, q \in Roots : startedAt[p] = startedAt[q] => p = q
  /\ \A s, r \in Records : ReferenceAt(s) = ReferenceAt(r) => s = r

Count == Cardinality(Records)

LEMMA RecordFacts ==
  ASSUME DatesAreNumbers
  PROVE  /\ IsFiniteSet(Records) /\ Records \subseteq Sessions
         /\ Count \in Nat
         /\ \A s \in Records : ReferenceAt(s) \in Nat /\ ReferenceAt(s) <= now
<1>1. Records \subseteq Sessions
  BY DEF Records, DatesAreNumbers
<1>2. IsFiniteSet(Records)
  BY <1>1, SharedAssumption, FS_Subset
<1>3. ASSUME NEW s \in Records PROVE ReferenceAt(s) \in Nat /\ ReferenceAt(s) <= now
  BY <1>1 DEF DatesAreNumbers, ReferenceAt
<1>4. QED
  BY <1>1, <1>2, <1>3, FS_CardinalityType DEF Count

NoOlder(s) == {r \in Records : ReferenceAt(r) >= ReferenceAt(s)}

\* Ranks follow the dates.
LEMMA RankOrders ==
  ASSUME DatesAreNumbers, NEW s \in Records, NEW r \in Records,
         ReferenceAt(s) > ReferenceAt(r)
  PROVE  Rank(s) < Rank(r)
<1>1. /\ ReferenceAt(s) \in Nat /\ ReferenceAt(r) \in Nat
      /\ \A t \in Records : ReferenceAt(t) \in Nat
  BY RecordFacts
<1>2. NoOlder(s) \subseteq NoOlder(r) /\ r \in NoOlder(r) /\ r \notin NoOlder(s)
  BY <1>1 DEF NoOlder
<1>3. IsFiniteSet(NoOlder(r)) /\ NoOlder(r) \in SUBSET Records
  BY RecordFacts, FS_Subset DEF NoOlder
<1>4. /\ IsFiniteSet(NoOlder(s))
      /\ Cardinality(NoOlder(s)) <= Cardinality(NoOlder(r))
      /\ Cardinality(NoOlder(s)) # Cardinality(NoOlder(r))
  BY <1>2, <1>3, FS_Subset
<1>5. Cardinality(NoOlder(s)) \in Nat /\ Cardinality(NoOlder(r)) \in Nat
  BY <1>3, <1>4, FS_CardinalityType
<1>6. QED
  BY <1>4, <1>5 DEF Rank, NoOlder

LEMMA RankRange ==
  ASSUME DatesAreNumbers, NEW s \in Records
  PROVE  Rank(s) \in 1 .. Count
<1>1. NoOlder(s) \in SUBSET Records /\ s \in NoOlder(s)
  BY RecordFacts DEF NoOlder
<1>2. IsFiniteSet(NoOlder(s)) /\ Cardinality(NoOlder(s)) <= Count
  BY <1>1, RecordFacts, FS_Subset DEF Count
<1>3. Cardinality(NoOlder(s)) \in Nat /\ Cardinality(NoOlder(s)) # 0
  BY <1>1, <1>2, FS_CardinalityType, FS_EmptySet
<1>4. QED
  BY <1>2, <1>3, RecordFacts DEF Rank, NoOlder

\* The n-th round of the loop is about the one session of that rank.
LEMMA RankIsPlace ==
  ASSUME DatesAreNumbers, DatesDiffer
  PROVE  /\ \A s \in Records : RecordAt(Rank(s)) = s
         /\ \A n \in 1 .. Count : RecordAt(n) \in Records /\ Rank(RecordAt(n)) = n
<1> DEFINE place == [s \in Records |-> Rank(s)]
<1>1. ASSUME NEW s \in Records, NEW r \in Records, Rank(s) = Rank(r) PROVE s = r
  <2>1. ReferenceAt(s) \in Nat /\ ReferenceAt(r) \in Nat
    BY RecordFacts
  <2>2. Rank(s) \in 1 .. Count /\ Rank(r) \in 1 .. Count /\ Count \in Nat
    BY RankRange, RecordFacts
  <2>3. ~(ReferenceAt(s) > ReferenceAt(r)) /\ ~(ReferenceAt(r) > ReferenceAt(s))
    BY <1>1, <2>2, RankOrders
  <2>4. QED
    BY <2>1, <2>3 DEF DatesDiffer
<1>2. place \in Injection(Records, 1 .. Count)
  BY <1>1, RankRange DEF Injection, IsInjective
<1>3. Cardinality(1 .. Count) = Count /\ IsFiniteSet(1 .. Count)
  BY RecordFacts, FS_Interval
<1>4. place \in Surjection(Records, 1 .. Count)
  BY <1>2, <1>3, FS_Injection DEF Count
<1>5. ASSUME NEW n \in 1 .. Count PROVE \E s \in Records : Rank(s) = n
  BY <1>4 DEF Surjection
<1>6. QED
  BY <1>1, <1>5, RankRange DEF RecordAt

-----------------------------------------------------------------------------
(* Whom a session is given to                                              *)

Owners == [Sessions -> Terminals \union {NoTerminal}]

LEMMA NewestFacts ==
  ASSUME DatesAreNumbers, NEW P, P \subseteq Terminals, P # {}
  PROVE  /\ Newest(P) \in P
         /\ \A q \in P : startedAt[q] <= startedAt[Newest(P)]
<1> DEFINE starts == {startedAt[p] : p \in P}
<1>1. starts \subseteq Nat /\ starts # {} /\ \A n \in starts : n <= now
  BY DEF DatesAreNumbers
<1>2. \E n \in starts : \A m \in starts : m <= n
  <2> HIDE DEF starts
  <2>1. QED
    BY <1>1, GreatestNatural DEF DatesAreNumbers
<1>3. \E p \in P : \A q \in P : startedAt[q] <= startedAt[p]
  BY <1>2
<1>4. QED
  BY <1>3 DEF Newest

\* The owner is one of the eligible, and the newest of those without a session
\* when there are any: those that are busy have one.
LEMMA OwnerFacts ==
  ASSUME DatesAreNumbers, NEW P, P \subseteq Roots, P # {}, NEW open \in BOOLEAN,
         NEW claimed, NEW busy, busy \subseteq claimed
  PROVE  LET owner == OwnerAmong(P, open, claimed, busy)
         IN  /\ owner \in P
             /\ P \ claimed # {} =>
                  /\ owner \notin claimed
                  /\ \A q \in P \ claimed : startedAt[q] <= startedAt[owner]
<1> DEFINE idle == IF open THEN Preferring(P, Roots \ busy) ELSE P
           chosen == Preferring(idle, Roots \ claimed)
<1>1. idle \subseteq P /\ idle # {}
  BY DEF Preferring
<1>2. chosen \subseteq P /\ chosen # {}
  BY <1>1 DEF Preferring
<1>3. P \subseteq Terminals
  BY DEF Roots
<1>4. OwnerAmong(P, open, claimed, busy) = Newest(chosen)
  BY DEF OwnerAmong
<1>5. ASSUME P \ claimed # {} PROVE chosen = P \ claimed
  <2>1. (P \intersect (Roots \ busy)) # {}
    BY <1>5
  <2>2. idle \ claimed = P \ claimed
    BY <1>5, <2>1 DEF Preferring
  <2>3. idle \intersect (Roots \ claimed) = P \ claimed
    BY <1>1, <2>2
  <2>4. QED
    BY <1>5, <2>3 DEF Preferring
<1> HIDE DEF chosen
<1>6. /\ Newest(chosen) \in chosen
      /\ \A q \in chosen : startedAt[q] <= startedAt[Newest(chosen)]
  BY <1>2, <1>3, NewestFacts
<1>7. QED
  BY <1>2, <1>4, <1>5, <1>6

LEMMA EligibleFacts ==
  ASSUME DatesAreNumbers
  PROVE  /\ IsFiniteSet(Roots) /\ Roots \subseteq Terminals
         /\ \A s : Eligible(s) \subseteq Roots /\ IsFiniteSet(Eligible(s))
<1>1. Roots \subseteq Terminals /\ \A s : Eligible(s) \subseteq Roots
  BY DEF Roots, Eligible
<1>2. IsFiniteSet(Roots)
  BY <1>1, SharedAssumption, FS_Subset
<1>3. QED
  BY <1>1, <1>2, FS_Subset

LEMMA NextIsOwners ==
  ASSUME DatesAreNumbers, NEW owners \in Owners, NEW s \in Sessions
  PROVE  /\ AllocatedNext(owners, s) \in Owners
         /\ \A r \in Sessions \ {s} : AllocatedNext(owners, s)[r] = owners[r]
<1> DEFINE claimed == {owners[r] : r \in Sessions}
           busy == {owners[r] : r \in {r \in Sessions : openTurn[r]}}
           owner == OwnerAmong(Eligible(s), openTurn[s], claimed, busy)
<1>1. CASE Eligible(s) = {}
  BY <1>1 DEF AllocatedNext
<1>2. CASE Eligible(s) # {}
  <2>1. busy \subseteq claimed /\ openTurn[s] \in BOOLEAN
    BY DEF DatesAreNumbers
  <2>2. owner \in Terminals
    <3> HIDE DEF claimed, busy
    <3>1. QED
      BY <1>2, <2>1, EligibleFacts, OwnerFacts
  <2>3. AllocatedNext(owners, s) = [owners EXCEPT ![s] = owner]
    BY <1>2 DEF AllocatedNext
  <2> HIDE DEF owner
  <2>4. QED
    BY <2>2, <2>3 DEF Owners
<1>3. QED
  BY <1>1, <1>2

\* The recursive definition of the loop has the function it asks for.
LEMMA AllocationExists ==
  ASSUME DatesAreNumbers, DatesDiffer
  PROVE  \E A \in [0 .. Count -> Owners] :
           /\ A[0] = [s \in Sessions |-> NoTerminal]
           /\ \A n \in 1 .. Count : A[n] = AllocatedNext(A[n - 1], RecordAt(n))
           /\ Allocation = A[Count]
<1> DEFINE first == [s \in Sessions |-> NoTerminal]
           step == [x \in Owners \X (1 .. Count) |-> AllocatedNext(x[1], RecordAt(x[2]))]
           IsLoop(f) == f = [n \in 0 .. Count |->
                               IF n = 0 THEN first ELSE AllocatedNext(f[n - 1], RecordAt(n))]
<1>1. Count \in Nat /\ first \in Owners
  BY RecordFacts DEF Owners
<1>2. step \in Steps(Owners, Count)
  <2>1. ASSUME NEW x \in Owners \X (1 .. Count)
        PROVE  AllocatedNext(x[1], RecordAt(x[2])) \in Owners
    BY RankIsPlace, RecordFacts, NextIsOwners
  <2>2. QED
    BY <2>1 DEF Steps
<1>3. PICK f : Iterates(f, Owners, first, Count, step)
  <2> HIDE DEF first, step
  <2>1. QED
    BY <1>1, <1>2, IteratesExist
<1>4. \E g : IsLoop(g)
  <2>1. ASSUME NEW n \in 0 .. Count, n # 0
        PROVE  step[<<f[n - 1], n>>] = AllocatedNext(f[n - 1], RecordAt(n))
    <3>1. f[n - 1] \in Owners /\ n \in 1 .. Count
      BY <1>1, <1>3, <2>1 DEF Iterates
    <3>2. QED
      BY <3>1
  <2>2. f = [n \in 0 .. Count |-> IF n = 0 THEN first ELSE AllocatedNext(f[n - 1], RecordAt(n))]
    <3> HIDE DEF first, step
    <3>1. QED
      BY <1>3, <2>1 DEF Iterates
  <2>3. QED
    BY <2>2
<1> DEFINE A == CHOOSE g : IsLoop(g)
<1>5. IsLoop(A)
  BY <1>4
<1>6. Allocation = A[Count]
  BY DEF Allocation, Count
<1> HIDE DEF A
<1>7. /\ A[0] = first
      /\ \A n \in 1 .. Count : A[n] = AllocatedNext(A[n - 1], RecordAt(n))
  BY <1>1, <1>5
<1>8. \A n \in 0 .. Count : A[n] \in Owners
  <2> DEFINE Bad == {n \in 0 .. Count : A[n] \notin Owners}
  <2>1. Bad \subseteq Nat
    BY <1>1
  <2>2. SUFFICES ASSUME Bad # {} PROVE FALSE
    OBVIOUS
  <2>3. PICK n \in Bad : \A m \in Bad : n <= m
    <3> HIDE DEF Bad
    <3>1. QED
      BY <2>1, <2>2, LeastNatural
  <2>4. n # 0
    BY <1>1, <1>7, <2>3
  <2>5. n \in 1 .. Count /\ n - 1 \in 0 .. Count /\ n - 1 \notin Bad
    BY <1>1, <2>3, <2>4
  <2>6. A[n - 1] \in Owners /\ RecordAt(n) \in Sessions
    BY <2>5, RankIsPlace, RecordFacts
  <2>7. QED
    BY <1>7, <2>3, <2>5, <2>6, NextIsOwners
<1>9. A = [n \in 0 .. Count |-> A[n]]
  BY <1>5
<1>10. A \in [0 .. Count -> Owners]
  BY <1>8, <1>9
<1>11. QED
  BY <1>6, <1>7, <1>10

Newer(s) == {r \in Records : ReferenceAt(r) > ReferenceAt(s)}
Claimed(s) == {Allocation[r] : r \in Newer(s)}

\* A session without a date is given to nobody.  Any other is given, once and
\* for all, to an eligible terminal, and to the newest of those that no newer
\* session was given to when there are any.
LEMMA AllocationOf ==
  ASSUME DatesAreNumbers, DatesDiffer
  PROVE  /\ \A s \in Sessions \ Records : Allocation[s] = NoTerminal
         /\ \A s \in Records : Eligible(s) = {} => Allocation[s] = NoTerminal
         /\ \A s \in Records : Eligible(s) # {} => Allocation[s] \in Eligible(s)
         /\ \A s \in Records : Eligible(s) \ Claimed(s) # {} =>
              /\ Allocation[s] \notin Claimed(s)
              /\ \A q \in Eligible(s) \ Claimed(s) : startedAt[q] <= startedAt[Allocation[s]]
<1>1. PICK A \in [0 .. Count -> Owners] :
        /\ A[0] = [s \in Sessions |-> NoTerminal]
        /\ \A n \in 1 .. Count : A[n] = AllocatedNext(A[n - 1], RecordAt(n))
        /\ Allocation = A[Count]
  BY AllocationExists
<1>2. Count \in Nat /\ Records \subseteq Sessions
  BY RecordFacts
<1>3. \A s \in Records : Rank(s) \in 1 .. Count
  BY RankRange
<1> DEFINE Settled(n, s) == IF s \in Records /\ Rank(s) <= n THEN A[n][s] = A[Rank(s)][s]
                            ELSE A[n][s] = NoTerminal
           Unsettled == {n \in 0 .. Count : ~ \A s \in Sessions : Settled(n, s)}
<1>4. ASSUME NEW n \in 1 .. Count
      PROVE  /\ n - 1 \in 0 .. Count /\ n \in 0 .. Count
             /\ A[n - 1] \in Owners /\ RecordAt(n) \in Records /\ Rank(RecordAt(n)) = n
             /\ \A s \in Sessions \ {RecordAt(n)} : A[n][s] = A[n - 1][s]
  <2>1. n - 1 \in 0 .. Count /\ n \in 0 .. Count /\ A[n - 1] \in Owners
    BY <1>1, <1>2
  <2>2. RecordAt(n) \in Records /\ Rank(RecordAt(n)) = n
    BY RankIsPlace
  <2>3. A[n] = AllocatedNext(A[n - 1], RecordAt(n))
    BY <1>1
  <2>4. QED
    BY <1>2, <2>1, <2>2, <2>3, NextIsOwners
<1>5. ASSUME NEW n \in 0 .. Count, NEW s \in Sessions PROVE Settled(n, s)
  <2> SUFFICES Unsettled = {}
    OBVIOUS
  <2>1. SUFFICES ASSUME Unsettled # {} PROVE FALSE
    OBVIOUS
  <2>2. PICK m \in Unsettled : \A k \in Unsettled : m <= k
    <3>1. Unsettled \subseteq Nat
      BY <1>2
    <3> HIDE DEF Unsettled
    <3>2. QED
      BY <2>1, <3>1, LeastNatural
  <2>3. PICK r \in Sessions : ~Settled(m, r)
    BY <2>2
  <2>4. m # 0
    <3>1. CASE m = 0
      <4>1. A[m][r] = NoTerminal
        BY <1>1, <3>1
      <4>2. ~(r \in Records /\ Rank(r) <= m)
        BY <1>2, <1>3, <3>1
      <4>3. QED
        BY <2>3, <4>1, <4>2
    <3>2. QED
      BY <3>1
  <2>5. m \in 1 .. Count /\ m - 1 \notin Unsettled /\ m \in Nat
    BY <1>2, <2>2, <2>4
  <2>6. Settled(m - 1, r)
    BY <1>4, <2>5
  <2>7. CASE r = RecordAt(m)
    BY <1>4, <2>3, <2>5, <2>7
  <2>8. CASE r # RecordAt(m)
    <3>1. A[m][r] = A[m - 1][r]
      BY <1>4, <2>5, <2>8
    <3>2. r \in Records => Rank(r) # m /\ Rank(r) \in Nat
      BY <1>3, <2>8, RankIsPlace
    <3>3. r \in Records /\ Rank(r) <= m <=> r \in Records /\ Rank(r) <= m - 1
      BY <2>5, <3>2
    <3>4. QED
      BY <2>3, <2>6, <3>1, <3>3
  <2>9. QED
    BY <2>7, <2>8
<1>6. ASSUME NEW s \in Records, NEW r \in Sessions
      PROVE  A[Rank(s) - 1][r] = IF r \in Newer(s) THEN Allocation[r] ELSE NoTerminal
  <2>1. Rank(s) - 1 \in 0 .. Count /\ Count \in 0 .. Count /\ Rank(s) \in Nat
    BY <1>2, <1>3
  <2>2. Settled(Rank(s) - 1, r) /\ Settled(Count, r)
    BY <1>5, <2>1
  <2>3. r \in Newer(s) <=> r \in Records /\ Rank(r) <= Rank(s) - 1
    <3>1. CASE r \in Records
      <4>1. Rank(r) \in Nat /\ ReferenceAt(s) \in Nat /\ ReferenceAt(r) \in Nat
        BY <1>3, <3>1, RecordFacts
      <4>2. /\ ReferenceAt(r) > ReferenceAt(s) => Rank(r) < Rank(s)
            /\ ReferenceAt(s) > ReferenceAt(r) => Rank(s) < Rank(r)
        BY <3>1, RankOrders
      <4>3. ReferenceAt(s) = ReferenceAt(r) => Rank(s) = Rank(r)
        BY <3>1 DEF DatesDiffer
      <4>4. QED
        BY <2>1, <3>1, <4>1, <4>2, <4>3 DEF Newer
    <3>2. QED
      BY <3>1 DEF Newer
  <2>4. r \in Records => Rank(r) <= Count
    BY <1>2, <1>3
  <2>5. r \in Records => Allocation[r] = A[Rank(r)][r]
    BY <1>1, <2>2, <2>4
  <2>6. QED
    BY <2>2, <2>3, <2>5
<1>7. ASSUME NEW s \in Sessions \ Records PROVE Allocation[s] = NoTerminal
  <2>1. Count \in 0 .. Count /\ Settled(Count, s)
    BY <1>2, <1>5
  <2>2. QED
    BY <1>1, <2>1
<1>8. ASSUME NEW s \in Records
      PROVE  /\ Eligible(s) = {} => Allocation[s] = NoTerminal
             /\ Eligible(s) # {} => Allocation[s] \in Eligible(s)
             /\ Eligible(s) \ Claimed(s) # {} =>
                  /\ Allocation[s] \notin Claimed(s)
                  /\ \A q \in Eligible(s) \ Claimed(s) : startedAt[q] <= startedAt[Allocation[s]]
  <2> DEFINE n == Rank(s)
             before == A[n - 1]
             claimed == {before[r] : r \in Sessions}
             busy == {before[r] : r \in {r \in Sessions : openTurn[r]}}
             owner == OwnerAmong(Eligible(s), openTurn[s], claimed, busy)
  <2>1. n \in 1 .. Count /\ RecordAt(n) = s /\ n \in 0 .. Count /\ n <= n
    BY <1>2, <1>3, RankIsPlace
  <2>2. A[n] = AllocatedNext(before, s) /\ before \in Owners
    BY <1>1, <1>4, <2>1
  <2>3. Allocation[s] = A[n][s]
    <3>1. Count \in 0 .. Count /\ n <= Count /\ Settled(Count, s)
      BY <1>2, <1>5, <2>1
    <3>2. QED
      BY <1>1, <3>1
  <2>4. s \notin Newer(s)
    BY RecordFacts DEF Newer
  <2>5. before[s] = NoTerminal
    BY <1>2, <1>6, <2>4
  <2>6. claimed \subseteq Claimed(s) \union {NoTerminal} /\ Claimed(s) \subseteq claimed
    <3>1. ASSUME NEW r \in Sessions PROVE before[r] \in Claimed(s) \union {NoTerminal}
      BY <1>6 DEF Claimed
    <3>2. ASSUME NEW r \in Newer(s) PROVE Allocation[r] \in claimed
      <4>1. r \in Sessions
        BY <1>2 DEF Newer
      <4>2. before[r] = Allocation[r]
        BY <1>6, <4>1
      <4>3. QED
        BY <4>1, <4>2
    <3>3. QED
      BY <3>1, <3>2 DEF Claimed
  <2>7. NoTerminal \notin Eligible(s)
    BY SharedAssumption DEF Eligible, Roots
  <2>8. Eligible(s) \ claimed = Eligible(s) \ Claimed(s)
    BY <2>6, <2>7
  <2>9. CASE Eligible(s) = {}
    BY <2>2, <2>3, <2>5, <2>9 DEF AllocatedNext
  <2>10. CASE Eligible(s) # {}
    <3>1. busy \subseteq claimed /\ openTurn[s] \in BOOLEAN /\ Eligible(s) \subseteq Roots
      BY <1>2, EligibleFacts DEF DatesAreNumbers
    <3>2. A[n] = [before EXCEPT ![s] = owner]
      BY <2>2, <2>10 DEF AllocatedNext
    <3>3. Allocation[s] = owner
      <4> HIDE DEF owner
      <4>1. QED
        BY <1>2, <2>2, <2>3, <3>2 DEF Owners
    <3>4. /\ owner \in Eligible(s)
          /\ Eligible(s) \ claimed # {} =>
               /\ owner \notin claimed
               /\ \A q \in Eligible(s) \ claimed : startedAt[q] <= startedAt[owner]
      <4> HIDE DEF claimed, busy
      <4>1. QED
        BY <2>10, <3>1, OwnerFacts
    <3> HIDE DEF owner, claimed
    <3>5. QED
      BY <2>6, <2>8, <2>10, <3>3, <3>4
  <2>11. QED
    BY <2>9, <2>10
<1>9. QED
  BY <1>7, <1>8

-----------------------------------------------------------------------------
(* The terminals                                                           *)

Dates(s) == {createdAt[s], attachedAt[s]} \ {None}

\* No two processes start and no two sessions are dated at the same time.
MomentsDiffer ==
  /\ \A p, q \in Terminals : startedAt[p] # None /\ startedAt[p] = startedAt[q] => p = q
  /\ \A s, r \in Sessions : s # r => Dates(s) \intersect Dates(r) = {}

\* Who drives a session is running, has attached to it since it started, and
\* drives no other; an open turn is one of a session that is driven.
DriversAreReal ==
  /\ \A s \in Sessions : driver[s] # NoTerminal =>
       /\ startedAt[driver[s]] # None
       /\ startedAt[driver[s]] <= attachedAt[s]
  /\ \A s, r \in Sessions : driver[s] # NoTerminal /\ driver[s] = driver[r] => s = r
  /\ \A s \in Sessions : openTurn[s] => driver[s] # NoTerminal /\ s \in worked

SharedInv == DatesAreNumbers /\ MomentsDiffer /\ DriversAreReal

LEMMA SharedInitially == SharedInit => SharedInv
BY SharedAssumption DEF SharedInit, SharedInv, DatesAreNumbers, MomentsDiffer, DriversAreReal,
   Dates, None

LEMMA LaunchStep ==
  ASSUME SharedInv, NEW p \in Terminals, Launch(p)
  PROVE  SharedInv'
<1> USE DEF SharedInv, Launch, Tick, None
<1>1. /\ now' = now + 1 /\ now \in Nat
      /\ startedAt' = [startedAt EXCEPT ![p] = now + 1]
      /\ startedAt[p] = 0
  BY DEF DatesAreNumbers, Live
<1>2. DatesAreNumbers'
  BY <1>1 DEF DatesAreNumbers
<1>3. MomentsDiffer'
  BY <1>1 DEF DatesAreNumbers, MomentsDiffer, Dates
<1>4. DriversAreReal'
  BY <1>1 DEF DatesAreNumbers, DriversAreReal
<1>5. QED
  BY <1>2, <1>3, <1>4

LEMMA ExitStep ==
  ASSUME SharedInv, NEW p \in Terminals, Exit(p)
  PROVE  SharedInv'
<1> USE DEF SharedInv, Exit, None, Drives
<1>1. DatesAreNumbers'
  BY DEF DatesAreNumbers
<1>2. ASSUME NEW s \in Sessions PROVE Dates(s)' \subseteq Dates(s)
  BY DEF Dates, DatesAreNumbers
<1>3. MomentsDiffer'
  <2>1. \A q, r \in Terminals : startedAt'[q] # None /\ startedAt'[q] = startedAt'[r] => q = r
    BY DEF DatesAreNumbers, MomentsDiffer
  <2>2. \A s, r \in Sessions : s # r => Dates(s)' \intersect Dates(r)' = {}
    BY <1>2 DEF MomentsDiffer
  <2>3. QED
    BY <2>1, <2>2 DEF MomentsDiffer, Dates
<1>4. ASSUME NEW s \in Sessions, driver'[s] # NoTerminal
      PROVE  /\ driver[s] # p /\ driver'[s] = driver[s] /\ driver[s] \in Terminals
             /\ attachedAt'[s] = attachedAt[s]
             /\ startedAt'[driver[s]] = startedAt[driver[s]]
  BY <1>4 DEF DatesAreNumbers
<1>5. DriversAreReal'
  <2>1. \A s \in Sessions : openTurn'[s] => driver'[s] # NoTerminal /\ s \in worked'
    BY DEF DatesAreNumbers, DriversAreReal
  <2>2. QED
    BY <1>4, <2>1 DEF DriversAreReal
<1>6. QED
  BY <1>1, <1>3, <1>5

LEMMA AttachStep ==
  ASSUME SharedInv, NEW p \in Terminals, NEW s \in Sessions, Attach(p, s)
  PROVE  SharedInv'
<1> USE DEF SharedInv, Attach, Tick, None
<1>1. /\ now' = now + 1 /\ now \in Nat /\ now + 1 # 0
      /\ p # NoTerminal /\ driver[s] = NoTerminal /\ startedAt[p] # 0
      /\ UNCHANGED <<startedAt, worked, openTurn>>
  BY SharedAssumption DEF DatesAreNumbers, Live
<1>2. /\ createdAt'[s] = (IF createdAt[s] = 0 THEN now + 1 ELSE createdAt[s])
      /\ attachedAt'[s] = now + 1
      /\ driver'[s] = p
  BY DEF DatesAreNumbers, LockDates, Drivers
<1>3. ASSUME NEW r \in Sessions, r # s
      PROVE  /\ createdAt'[r] = createdAt[r]
             /\ attachedAt'[r] = IF driver[r] = p THEN 0 ELSE attachedAt[r]
             /\ driver'[r] = IF driver[r] = p THEN NoTerminal ELSE driver[r]
             /\ driver[r] = p => ~openTurn[r]
  BY <1>3 DEF DatesAreNumbers, LockDates, Drivers, Left, Drives
<1>4. DatesAreNumbers'
  <2>1. /\ createdAt' \in [Sessions -> Nat]
        /\ attachedAt' \in [Sessions -> Nat]
        /\ driver' \in [Sessions -> Terminals \union {NoTerminal}]
    BY <1>1 DEF DatesAreNumbers, LockDates, Drivers
  <2>2. ASSUME NEW r \in Sessions PROVE createdAt'[r] <= now' /\ attachedAt'[r] <= now'
    BY <1>1, <1>2, <1>3 DEF DatesAreNumbers
  <2>3. \A q \in Terminals : startedAt'[q] <= now'
    BY <1>1 DEF DatesAreNumbers
  <2>4. QED
    BY <1>1, <2>1, <2>2, <2>3 DEF DatesAreNumbers
<1>5. MomentsDiffer'
  <2>1. Dates(s)' \subseteq Dates(s) \union {now + 1}
    BY <1>2 DEF Dates
  <2>2. ASSUME NEW r \in Sessions, r # s
        PROVE  /\ Dates(r)' \subseteq Dates(r)
               /\ now + 1 \notin Dates(r)
    BY <1>1, <1>3, <2>2 DEF Dates, DatesAreNumbers
  <2>3. \A q, r \in Sessions : q # r => Dates(q)' \intersect Dates(r)' = {}
    BY <2>1, <2>2 DEF MomentsDiffer
  <2>4. QED
    BY <1>1, <2>3 DEF MomentsDiffer, Dates
<1>6. DriversAreReal'
  <2>1. ASSUME NEW r \in Sessions, driver'[r] # NoTerminal
        PROVE  startedAt'[driver'[r]] # None /\ startedAt'[driver'[r]] <= attachedAt'[r]
    <3>1. CASE r = s
      <4>1. startedAt[p] <= now /\ startedAt[p] \in Nat
        BY DEF DatesAreNumbers
      <4>2. QED
        BY <1>1, <1>2, <3>1, <4>1
    <3>2. CASE r # s
      BY <1>1, <1>3, <2>1, <3>2 DEF DriversAreReal
    <3>3. QED
      BY <3>1, <3>2
  <2>2. \A q, r \in Sessions : driver'[q] # NoTerminal /\ driver'[q] = driver'[r] => q = r
    BY <1>1, <1>2, <1>3 DEF DriversAreReal
  <2>3. \A r \in Sessions : openTurn'[r] => driver'[r] # NoTerminal /\ r \in worked'
    BY <1>1, <1>2, <1>3 DEF DriversAreReal
  <2>4. QED
    BY <2>1, <2>2, <2>3 DEF DriversAreReal
<1>7. QED
  BY <1>4, <1>5, <1>6

\* Terminals launch, attach, move, work and exit under this invariant.
THEOREM SharedInvariant == SharedSpec => []SharedInv
<1>1. SharedInv /\ [SharedNext]_sharedVars => SharedInv'
  <2> SUFFICES ASSUME SharedInv, [SharedNext]_sharedVars PROVE SharedInv'
    OBVIOUS
  <2>1. ASSUME NEW s \in Sessions, StartTurn(s) \/ EndTurn(s) PROVE SharedInv'
    <3> USE DEF SharedInv
    <3>1. DatesAreNumbers'
      BY <2>1 DEF StartTurn, EndTurn, DatesAreNumbers
    <3>2. MomentsDiffer'
      BY <2>1 DEF StartTurn, EndTurn, MomentsDiffer, Dates
    <3>3. DriversAreReal'
      BY <2>1 DEF StartTurn, EndTurn, DriversAreReal, DatesAreNumbers
    <3>4. QED
      BY <3>1, <3>2, <3>3
  <2>2. CASE UNCHANGED sharedVars
    BY <2>2 DEF sharedVars, SharedInv, DatesAreNumbers, MomentsDiffer, DriversAreReal, Dates
  <2>3. QED
    BY <2>1, <2>2, LaunchStep, ExitStep, AttachStep DEF SharedNext
<1>2. QED
  BY <1>1, SharedInitially, PTL DEF SharedSpec

-----------------------------------------------------------------------------
(* The allocation is fair                                                  *)

\* The dates the allocation goes by are those of different moments.
LEMMA AllocationApplies == SharedInv => DatesAreNumbers /\ DatesDiffer
<1> SUFFICES ASSUME SharedInv PROVE DatesAreNumbers /\ DatesDiffer
  OBVIOUS
<1>1. \A p, q \in Roots : startedAt[p] = startedAt[q] => p = q
  BY DEF SharedInv, MomentsDiffer, Roots, Live
<1>2. ASSUME NEW s \in Records PROVE ReferenceAt(s) \in Dates(s) /\ s \in Sessions
  BY DEF Records, ReferenceAt, Dates, SharedInv, DatesAreNumbers
<1>3. \A s, r \in Records : ReferenceAt(s) = ReferenceAt(r) => s = r
  BY <1>2 DEF SharedInv, MomentsDiffer
<1>4. QED
  BY <1>1, <1>3 DEF SharedInv, DatesDiffer

\* The session that a terminal works in has a date, at which the terminal and
\* all that are no younger than it were running.
LEMMA DrivenRecord ==
  ASSUME SharedInv, NEW s \in worked, driver[s] # NoTerminal
  PROVE  /\ s \in Records /\ driver[s] \in Roots
         /\ startedAt[driver[s]] \in Nat
         /\ startedAt[driver[s]] <= ReferenceAt(s)
         /\ \A p \in Roots : startedAt[p] <= startedAt[driver[s]] => p \in Eligible(s)
<1> USE DEF SharedInv, DatesAreNumbers, None
<1>1. s \in Sessions /\ driver[s] \in Terminals /\ startedAt[driver[s]] \in Nat
  OBVIOUS
<1>2. startedAt[driver[s]] # 0 /\ startedAt[driver[s]] <= attachedAt[s] /\ attachedAt[s] \in Nat
  BY <1>1 DEF DriversAreReal
<1>3. attachedAt[s] # 0 /\ ReferenceAt(s) = attachedAt[s]
  BY <1>1, <1>2 DEF ReferenceAt
<1>4. s \in Records /\ driver[s] \in Roots
  BY <1>1, <1>2, <1>3 DEF Records, Roots, Live
<1>5. ASSUME NEW p \in Roots, startedAt[p] <= startedAt[driver[s]]
      PROVE  startedAt[p] <= ReferenceAt(s) + Grace
  <2>1. startedAt[p] \in Nat /\ Grace \in Nat
    BY SharedAssumption DEF Roots
  <2>2. QED
    BY <1>1, <1>2, <1>3, <1>5, <2>1
<1>6. QED
  BY <1>1, <1>2, <1>3, <1>4, <1>5 DEF Eligible

\* Were a terminal left without a session, then each that is no older than it
\* would have been passed over, in the session of its own, for one that is
\* younger still: there are too few of these.
LEMMA NoneIsStarved ==
  ASSUME SharedInv, NEW p \in Roots, \A q \in Roots : Left(q) \intersect worked # {}
  PROVE  \E s \in Sessions : Allocation[s] = p
<1> SUFFICES ASSUME \A s \in Sessions : Allocation[s] # p PROVE FALSE
  OBVIOUS
<1> DEFINE Younger == {q \in Roots : startedAt[q] >= startedAt[p]}
           own == [q \in Younger |-> CHOOSE s \in Sessions : s \in Left(q) \intersect worked]
           given == [q \in Younger |-> Allocation[own[q]]]
<1>1. DatesAreNumbers /\ DatesDiffer
  BY AllocationApplies
<1>2. \A q \in Roots : startedAt[q] \in Nat
  BY <1>1 DEF DatesAreNumbers, Roots
<1>3. IsFiniteSet(Younger) /\ p \in Younger
  <2>1. Younger \in SUBSET Roots /\ p \in Younger
    BY <1>2
  <2>2. IsFiniteSet(Roots)
    BY <1>1, EligibleFacts
  <2>3. QED
    BY <2>1, <2>2, FS_Subset
<1>4. ASSUME NEW q \in Younger
      PROVE  own[q] \in Sessions /\ own[q] \in worked /\ driver[own[q]] = q
  <2>1. \E s \in Sessions : s \in Left(q) \intersect worked
    BY DEF Left
  <2>2. QED
    BY <2>1 DEF Left, Drives
<1>5. ASSUME NEW q \in Younger
      PROVE  /\ own[q] \in Records
             /\ p \in Eligible(own[q]) \ Claimed(own[q])
    <2>1. q # NoTerminal /\ q \in Roots
      BY SharedAssumption DEF Roots
    <2>2. own[q] \in Records /\ p \in Eligible(own[q])
      BY <1>2, <1>4, <2>1, DrivenRecord
    <2>3. p \notin Claimed(own[q])
      BY <1>1, RecordFacts DEF Claimed, Newer
    <2>4. QED
      BY <2>2, <2>3
<1>6. ASSUME NEW q \in Younger
      PROVE  /\ given[q] \in Younger \ {p}
             /\ given[q] \notin Claimed(own[q])
  <2> DEFINE s == own[q]
  <2>1. s \in Records /\ p \in Eligible(s) \ Claimed(s) /\ given[q] = Allocation[s]
    BY <1>5
  <2> HIDE DEF s
  <2>2. /\ Allocation[s] \in Eligible(s)
        /\ Allocation[s] \notin Claimed(s)
        /\ startedAt[p] <= startedAt[Allocation[s]]
    BY <1>1, <2>1, AllocationOf
  <2>3. Allocation[s] \in Roots /\ Allocation[s] # p
    BY <1>1, <2>1, <2>2, RecordFacts DEF Eligible
  <2>4. QED
    BY <1>2, <2>1, <2>2, <2>3 DEF s
<1>7. ASSUME NEW q \in Younger, NEW r \in Younger, q # r
      PROVE  given[q] # given[r]
  <2>1. own[q] \in Records /\ own[r] \in Records /\ own[q] # own[r]
    BY <1>4, <1>5, <1>7
  <2>2. /\ ReferenceAt(own[q]) \in Nat /\ ReferenceAt(own[r]) \in Nat
        /\ ReferenceAt(own[q]) # ReferenceAt(own[r])
    BY <1>1, <2>1, RecordFacts DEF DatesDiffer
  <2>3. own[q] \in Newer(own[r]) \/ own[r] \in Newer(own[q])
    BY <2>1, <2>2 DEF Newer
  <2>4. given[q] \in Claimed(own[r]) \/ given[r] \in Claimed(own[q])
    BY <2>3 DEF Claimed
  <2>5. QED
    BY <1>6, <2>4
<1>8. given \in [Younger -> Younger \ {p}]
  BY <1>6
<1>9. /\ IsFiniteSet(Younger \ {p})
      /\ Cardinality(Younger \ {p}) = Cardinality(Younger) - 1
      /\ Cardinality(Younger) \in Nat
  BY <1>3, FS_RemoveElement, FS_CardinalityType
<1>10. \E q, r \in Younger : q # r /\ given[q] = given[r]
  <2> HIDE DEF Younger, given
  <2>1. Cardinality(Younger \ {p}) < Cardinality(Younger)
    BY <1>9
  <2>2. QED
    BY <1>3, <1>8, <1>9, <2>1, FS_PigeonHole
<1>11. QED
  BY <1>7, <1>10

\* When every terminal of the directory has worked in the session it is
\* attached to, each gets a row, however many there are and in whatever order
\* they attached.
THEOREM EveryDriverIsShown == SharedSpec => []EveryDriverHasARow
<1>1. SharedInv => EveryDriverHasARow
  <2> SUFFICES ASSUME SharedInv, \A q \in Roots : Left(q) \intersect worked # {},
                      NEW p \in Roots
               PROVE  SessionsOf(p) # {}
    BY DEF EveryDriverHasARow
  <2>1. CASE Roots = {p}
    <3>1. PICK s \in Left(p) : s \in worked
      OBVIOUS
    <3>2. driver[s] = p /\ p # NoTerminal
      BY SharedAssumption DEF Left, Drives, Roots
    <3>3. s \in Records
      BY <3>1, <3>2, DrivenRecord
    <3>4. QED
      BY <2>1, <3>3 DEF SessionsOf
  <2>2. CASE Roots # {p}
    BY <2>2, NoneIsStarved DEF SessionsOf
  <2>3. QED
    BY <2>1, <2>2
<1>2. QED
  BY <1>1, SharedInvariant, PTL

\* With no session left behind, each session gets a terminal of its own: of
\* the sessions between one that finds all its eligible terminals taken and
\* the newest of which this would be true, each is driven by another of these
\* terminals, and only these sessions took any.
LEMMA EachFindsOneFree ==
  ASSUME SharedInv, \A s \in worked : driver[s] # NoTerminal, NEW s \in Records
  PROVE  Eligible(s) \ Claimed(s) # {}
<1> SUFFICES ASSUME Eligible(s) \subseteq Claimed(s) PROVE FALSE
  OBVIOUS
<1> DEFINE Hopeless == {r \in Records : Eligible(r) \subseteq Claimed(s)}
           moments == {ReferenceAt(r) : r \in Hopeless}
<1>1. DatesAreNumbers /\ DatesDiffer /\ Grace \in Nat
  BY AllocationApplies, SharedAssumption
<1>2. /\ Records \subseteq worked
      /\ \A r \in Records : ReferenceAt(r) \in Nat /\ ReferenceAt(r) <= now
  BY <1>1, RecordFacts DEF Records
<1>3. \A q \in Roots : startedAt[q] \in Nat
  BY <1>1 DEF DatesAreNumbers, Roots
<1>4. PICK r \in Hopeless : \A t \in Hopeless : ReferenceAt(t) <= ReferenceAt(r)
  <2>1. moments \subseteq Nat /\ moments # {} /\ \A n \in moments : n <= now
    BY <1>2
  <2>2. \E n \in moments : \A m \in moments : m <= n
    <3> HIDE DEF moments
    <3>1. QED
      BY <1>1, <2>1, GreatestNatural DEF DatesAreNumbers
  <2>3. QED
    BY <2>2
<1>5. r \in Records /\ ReferenceAt(s) <= ReferenceAt(r)
  BY <1>4
<1> DEFINE Between == {t \in Records : ReferenceAt(s) <= ReferenceAt(t)
                                         /\ ReferenceAt(t) <= ReferenceAt(r)}
           Taken == Eligible(r)
           drives == [t \in Between |-> driver[t]]
           taker == [q \in Taken |-> CHOOSE t \in Newer(s) : Allocation[t] = q]
<1>6. IsFiniteSet(Between) /\ s \in Between
  BY <1>1, <1>2, <1>5, RecordFacts, FS_Subset
<1>7. IsFiniteSet(Taken)
  BY <1>1, EligibleFacts
<1>8. ASSUME NEW t \in Newer(r) PROVE Allocation[t] \notin Eligible(r)
  <2>1. t \in Records /\ t \notin Hopeless
    BY <1>2, <1>4, <1>5, <1>8 DEF Newer
  <2>2. PICK q \in Eligible(t) : q \notin Claimed(s)
    BY <2>1
  <2>3. Claimed(t) \subseteq Claimed(s)
    BY <1>2, <1>5, <2>1, <1>8 DEF Claimed, Newer
  <2>4. /\ Allocation[t] \in Eligible(t)
        /\ startedAt[q] <= startedAt[Allocation[t]]
    BY <1>1, <2>1, <2>2, <2>3, AllocationOf
  <2>5. /\ q \in Roots /\ q \notin Eligible(r) /\ Allocation[t] \in Roots
        /\ ReferenceAt(r) \in Nat
    BY <1>2, <1>4, <1>5, <2>2, <2>4 DEF Eligible
  <2>6. startedAt[q] \in Nat /\ startedAt[Allocation[t]] \in Nat /\ Grace \in Nat
    BY <1>1, <1>3, <2>5
  <2>7. ~(startedAt[q] <= ReferenceAt(r) + Grace)
    BY <2>5 DEF Eligible
  <2>8. ~(startedAt[Allocation[t]] <= ReferenceAt(r) + Grace)
    BY <2>4, <2>5, <2>6, <2>7
  <2>9. QED
    BY <2>8 DEF Eligible
<1>9. ASSUME NEW q \in Taken
      PROVE  taker[q] \in Between \ {s} /\ Allocation[taker[q]] = q
  <2>1. q \in Claimed(s)
    BY <1>4
  <2>2. taker[q] \in Newer(s) /\ Allocation[taker[q]] = q
    BY <2>1 DEF Claimed
  <2>3. taker[q] \in Records /\ taker[q] \notin Newer(r)
    BY <1>8, <2>2 DEF Newer
  <2> HIDE DEF taker
  <2>4. QED
    BY <1>2, <1>5, <2>2, <2>3 DEF Newer
<1>10. ASSUME NEW t \in Between PROVE driver[t] \in Taken
  <2>1. /\ t \in worked /\ driver[t] # NoTerminal
        /\ ReferenceAt(t) \in Nat /\ ReferenceAt(r) \in Nat /\ ReferenceAt(t) <= ReferenceAt(r)
    BY <1>2, <1>5
  <2>2. driver[t] \in Roots /\ startedAt[driver[t]] \in Nat /\ startedAt[driver[t]] <= ReferenceAt(t)
    BY <2>1, DrivenRecord
  <2>3. startedAt[driver[t]] <= ReferenceAt(r) + Grace
    BY <1>1, <2>1, <2>2
  <2>4. QED
    BY <2>2, <2>3 DEF Eligible
<1>11. drives \in Injection(Between, Taken)
  <2>1. \A t, u \in Between : driver[t] = driver[u] => t = u
    BY <1>1, <1>2, RecordFacts DEF SharedInv, DriversAreReal
  <2>2. QED
    BY <1>10, <2>1 DEF Injection, IsInjective
<1>12. taker \in Injection(Taken, Between \ {s})
  <2>1. taker \in [Taken -> Between \ {s}]
    BY <1>9
  <2>2. \A q, u \in Taken : taker[q] = taker[u] => q = u
    BY <1>9
  <2> HIDE DEF taker, Taken, Between
  <2>3. QED
    BY <2>1, <2>2 DEF Injection, IsInjective
<1>13. /\ IsFiniteSet(Between \ {s})
       /\ Cardinality(Between \ {s}) = Cardinality(Between) - 1
       /\ Cardinality(Between) \in Nat /\ Cardinality(Taken) \in Nat
  BY <1>6, <1>7, FS_RemoveElement, FS_CardinalityType
<1> HIDE DEF Between, Taken, drives, taker
<1>14. Cardinality(Between) <= Cardinality(Taken)
  BY <1>7, <1>11, FS_Injection
<1>15. Cardinality(Taken) <= Cardinality(Between \ {s})
  BY <1>12, <1>13, FS_Injection
<1>16. QED
  BY <1>13, <1>14, <1>15

LEMMA GivenApart ==
  ASSUME SharedInv, \A s \in worked : driver[s] # NoTerminal
  PROVE  /\ \A s \in Records : Allocation[s] \in Roots
         /\ \A s, r \in Records : Allocation[s] = Allocation[r] => s = r
<1>1. DatesAreNumbers /\ DatesDiffer
  BY AllocationApplies
<1>2. ASSUME NEW s \in Records
      PROVE  Allocation[s] \in Eligible(s) /\ Allocation[s] \notin Claimed(s)
  <2>1. Eligible(s) \ Claimed(s) # {}
    BY EachFindsOneFree
  <2>2. QED
    BY <1>1, <2>1, AllocationOf
<1>3. ASSUME NEW s \in Records, NEW r \in Records, s # r
      PROVE  Allocation[s] # Allocation[r]
  <2>1. /\ ReferenceAt(s) \in Nat /\ ReferenceAt(r) \in Nat
        /\ ReferenceAt(s) # ReferenceAt(r)
    BY <1>1, <1>3, RecordFacts DEF DatesDiffer
  <2>2. s \in Newer(r) \/ r \in Newer(s)
    BY <2>1 DEF Newer
  <2>3. Allocation[s] \in Claimed(r) \/ Allocation[r] \in Claimed(s)
    BY <2>2 DEF Claimed
  <2>4. QED
    BY <1>2, <2>3
<1>4. QED
  BY <1>2, <1>3 DEF Eligible

\* Every session with an open turn is on the row of one terminal, and no two
\* are on the same.
LEMMA OpenTurnsApart ==
  ASSUME SharedInv, \A s \in worked : driver[s] # NoTerminal
  PROVE  OpenTurnsSpread
<1> DEFINE Open == {s \in Sessions : InTurn(s)}
           BusyRoots == {p \in Roots : \E s \in SessionsOf(p) : openTurn[s]}
<1>1. DatesAreNumbers /\ DatesDiffer /\ Records \subseteq Sessions
  BY AllocationApplies, RecordFacts
<1>2. /\ \A s \in Sessions : openTurn[s] => s \in Open
      /\ \A s \in Open : s \in Records /\ openTurn[s] /\ driver[s] \in Roots
  BY DrivenRecord DEF SharedInv, DriversAreReal, InTurn
<1>3. IsFiniteSet(Open)
  BY SharedAssumption, FS_Subset
<1>4. CASE \E p : Roots = {p}
  <2>1. PICK p : Roots = {p}
    BY <1>4
  <2>2. SessionsOf(p) = Records
    BY <2>1 DEF SessionsOf
  <2>3. \A s, r \in Open : s = r
    BY <1>2, <2>1 DEF SharedInv, DriversAreReal, InTurn
  <2>4. CASE Open = {}
    <3>1. BusyRoots = {}
      BY <1>1, <1>2, <2>1, <2>2, <2>4
    <3>2. QED
      BY <2>4, <3>1 DEF OpenTurnsSpread
  <2>5. CASE Open # {}
    <3>1. PICK s \in Open : TRUE
      BY <2>5
    <3>2. Open = {s} /\ BusyRoots = {p}
      BY <1>2, <2>1, <2>2, <2>3, <3>1
    <3>3. Cardinality(Open) = 1 /\ Cardinality(BusyRoots) = 1
      BY <3>2, FS_Singleton
    <3>4. QED
      BY <3>3 DEF OpenTurnsSpread
  <2>6. QED
    BY <2>4, <2>5
<1>5. CASE ~ \E p : Roots = {p}
  <2> DEFINE rowOf == [s \in Open |-> Allocation[s]]
  <2>1. \A p \in Roots : SessionsOf(p) = {s \in Sessions : Allocation[s] = p}
    BY <1>5 DEF SessionsOf
  <2>2. ASSUME NEW s \in Open PROVE Allocation[s] \in BusyRoots
    <3>1. Allocation[s] \in Roots /\ s \in Sessions /\ openTurn[s]
      BY <1>2, GivenApart
    <3>2. s \in SessionsOf(Allocation[s])
      BY <2>1, <3>1
    <3>3. QED
      BY <3>1, <3>2
  <2>3. ASSUME NEW p \in BusyRoots PROVE \E s \in Open : Allocation[s] = p
    BY <1>2, <2>1
  <2>4. \A s, r \in Open : Allocation[s] = Allocation[r] => s = r
    BY <1>2, GivenApart
  <2> HIDE DEF Open, BusyRoots
  <2>5. rowOf \in [Open -> BusyRoots]
    BY <2>2
  <2>6. rowOf \in Injection(Open, BusyRoots)
    BY <2>4, <2>5 DEF Injection, IsInjective
  <2>7. rowOf \in Surjection(Open, BusyRoots)
    BY <2>3, <2>5 DEF Surjection
  <2>8. Cardinality(BusyRoots) = Cardinality(Open)
    <3> HIDE DEF rowOf
    <3>1. QED
      BY <1>3, <2>6, <2>7, FS_Surjection
  <2>9. QED
    BY <2>8 DEF OpenTurnsSpread, Open, BusyRoots
<1>6. QED
  BY <1>4, <1>5

\* As long as no session is left behind by a terminal that exited or moved
\* on, as many rows show an open turn as there are open turns.
THEOREM OpenTurnsNeverHide == SharedSpec => []AttendedTurnsSpread
<1>1. SharedInv => AttendedTurnsSpread
  BY OpenTurnsApart DEF AttendedTurnsSpread
<1>2. QED
  BY <1>1, SharedInvariant, PTL

=============================================================================
