--------------------------------- MODULE Mrz ---------------------------------
(***************************************************************************)
(* The number of an identity document, read off its photograph: what an upload  *)
(* may be, the one recogniser that every upload of the process shares, and the  *)
(* machine-readable zone with its check digits.                             *)
(*                                                                          *)
(* A character of the zone is its ICAO value: 0-9, A-Z as 10-35, and the filler.  *)
(* Abstracted: the bytes, but for what they and their header say they are; the   *)
(* image; the digest of the key; where and when the object is stored (Kyc).    *)
(***************************************************************************)
EXTENDS Naturals, Sequences, FiniteSets

CONSTANTS
  Uploads,      \* requests that upload a document; one of each at a time
  Tails,        \* by how much a recogniser may lengthen a line
  Spots,        \* the places of a line where it may be wrong
  Mistakes      \* what it may take a character for there

VARIABLES
  job,          \* locals of each upload
  last,         \* what the upload that has just ended stored and read
  refused,      \* the document of an application that was rejected before
  worker,       \* the recogniser: none, being made, ready, or hung
  off,          \* Date.now() < retryAfter
  alive         \* recognisers whose process runs

mrzVars == <<job, last, refused, worker, off, alive>>

\* The documents that are uploaded: a passport of Utopia, the state of the standard's own
\* samples, with a number of eight characters, an identity card of Ukraine with its optional
\* data, a card of the middle format, and a German passport, whose state is one letter.
Utopia == <<30, 29, 24>>
Ukraine == <<30, 20, 27>>
Germany == <<13>>
Document(layout, code, state, number, expiry, more) ==
  [layout |-> layout, code |-> code, state |-> state, number |-> number,
   birth |-> <<7, 4, 0, 8, 1, 2>>, expiry |-> expiry, more |-> more]
CardNumber == <<21, 0, 1, 33, 0, 0, 29, 4, 7>>
Papers ==
  <<Document("TD3", <<25>>, Utopia, <<21, 8, 9, 8, 9, 0, 2, 12>>, <<1, 2, 0, 4, 1, 5>>, <<>>),
    Document("TD1", <<18, 13>>, Ukraine, CardNumber, <<0, 6, 0, 4, 1, 0>>,
             <<36, 8, 36, 36, 36, 36, 36, 36, 36, 0>>),
    Document("TD2", <<18, 13>>, Utopia, CardNumber, <<1, 2, 0, 4, 1, 5>>, <<>>),
    Document("TD3", <<25>>, Germany, <<12, 0, 1, 33, 0, 0, 29, 4, 7>>, <<1, 2, 0, 4, 1, 5>>, <<>>)>>

Filler == 36
Letters == 10 .. 35
Digits == 0 .. 9
Null == [format |-> "none", code |-> <<>>, state |-> <<>>, number |-> <<>>, field |-> <<>>]

-----------------------------------------------------------------------------
\* mrzCheckDigit, digitMatches, unpad.
Value(c) == IF c = Filler THEN 0 ELSE c
Weight(i) == <<7, 3, 1>>[((i - 1) % 3) + 1]
CheckDigit(f) ==
  LET sum[i \in 0 .. Len(f)] == IF i = 0 THEN 0 ELSE sum[i - 1] + Value(f[i]) * Weight(i)
  IN sum[Len(f)] % 10
DigitMatches(f, c) == c \in Digits /\ c = CheckDigit(f)
Unpad(f) == SelectSeq(f, LAMBDA c : c # Filler)

\* slice(a, b) of a line, and its character at i, as the source counts them.
Slice(l, a, b) == SubSeq(l, a + 1, b)
At(l, i) == l[i + 1]

Build(format, code, state, number) ==
  IF /\ Len(Unpad(state)) = 3 /\ \A i \in 1 .. 3 : Unpad(state)[i] \in Letters
     /\ Len(Unpad(number)) >= 5 /\ Unpad(code) # <<>>
  THEN [format |-> format, code |-> Unpad(code), state |-> Unpad(state),
        number |-> Unpad(number), field |-> number]
  ELSE Null

\* readTd3, readTd2: the number and both dates are on the second line.
OfTwoLines(format, first, second) ==
  IF /\ DigitMatches(Slice(second, 0, 9), At(second, 9))
     /\ DigitMatches(Slice(second, 13, 19), At(second, 19))
     /\ DigitMatches(Slice(second, 21, 27), At(second, 27))
  THEN Build(format, Slice(first, 0, 2), Slice(first, 2, 5), Slice(second, 0, 9))
  ELSE Null
ReadTd3ByWidth(first, second) ==
  IF Len(first) = 44 /\ Len(second) = 44 /\ first[1] = 25
  THEN OfTwoLines("TD3", first, second) ELSE Null
ReadTd3(first, second) ==
  IF Len(first) >= 5 /\ Len(second) >= 44 /\ first[1] = 25
  THEN OfTwoLines("TD3", first, second) ELSE Null
ReadTd2Touched(first, second) ==
  IF Len(first) >= 5 /\ Len(second) >= 28 THEN OfTwoLines("TD2", first, second) ELSE Null
ReadTd2(first, second) ==
  IF Len(first) >= 5 /\ Len(second) >= 36 THEN OfTwoLines("TD2", first, second) ELSE Null

\* readTd1: the number is on the first line.
ReadTd1Unchecked(first, second) ==
  IF Len(first) >= 15 /\ Len(second) >= 15
  THEN Build("TD1", Slice(first, 0, 2), Slice(first, 2, 5), Slice(first, 5, 14))
  ELSE Null
ReadTd1(first, second) ==
  IF /\ Len(first) >= 15 /\ Len(second) >= 15
     /\ DigitMatches(Slice(first, 5, 14), At(first, 14))
     /\ DigitMatches(Slice(second, 0, 6), At(second, 6))
     /\ DigitMatches(Slice(second, 8, 14), At(second, 14))
  THEN Build("TD1", Slice(first, 0, 2), Slice(first, 2, 5), Slice(first, 5, 14))
  ELSE Null

\* The first pair of lines that one of the readers takes.
FirstRead(lines, Reader(_, _)) ==
  LET hits == {i \in 1 .. Len(lines) - 1 : Reader(lines[i], lines[i + 1]) # Null}
  IN IF hits = {} THEN Null
     ELSE LET i == CHOOSE i \in hits : \A j \in hits : i <= j IN Reader(lines[i], lines[i + 1])

\* parseMrz, of lines that are normalised: the longest layout first.
ParseMrz(text) ==
  LET lines == SelectSeq(text, LAMBDA l : Len(l) >= 28)
      td3 == FirstRead(lines, ReadTd3)
      td2 == FirstRead(lines, ReadTd2)
  IN IF td3 # Null THEN td3 ELSE IF td2 # Null THEN td2 ELSE FirstRead(lines, ReadTd1)

\* mrzIdentityKey.
NumberOnly(r) == <<r.number>>
IdentityKey(r) == <<r.state, r.code, r.number>>

-----------------------------------------------------------------------------
\* What is printed on a document, as ICAO 9303 lays it out.
Pad(f, n) == f \o [i \in 1 .. n - Len(f) |-> Filler]
Checked(f) == f \o <<CheckDigit(f)>>
Opening(p) == Pad(p.code, 2) \o Pad(p.state, 3)
Zone(p) ==
  LET number == Checked(Pad(p.number, 9))
      dates == Checked(p.birth) \o <<Filler>> \o Checked(p.expiry)
  IN CASE p.layout = "TD3" ->
            <<Pad(Opening(p), 44), Pad(number \o Pad(p.state, 3) \o dates, 44)>>
       [] p.layout = "TD2" ->
            <<Pad(Opening(p), 36), Pad(number \o Pad(p.state, 3) \o dates, 36)>>
       [] p.layout = "TD1" ->
            <<Pad(Opening(p) \o number, 30), Pad(dates \o Pad(p.state, 3) \o p.more, 30),
              Pad(<<>>, 30)>>

\* The recogniser: the text as it is, with a tail it made of the filler, without its last
\* line, or with one character of what is read taken for another.
Exactly(p) == {Zone(p)}
Lengthened(p) ==
  {[Zone(p) EXCEPT ![l] = @ \o [i \in 1 .. n |-> 21]] : l \in 1 .. 2, n \in Tails}
Cut(p) == {Tail(Zone(p))}
Misread(p) ==
  {[Zone(p) EXCEPT ![l][i] = c] : l \in 1 .. 2, i \in Spots, c \in Mistakes}

-----------------------------------------------------------------------------
\* resolveKycObject: what the part says it is, and what its first bytes say.
Said == {"", "application/pdf", "image/jpeg", "image/svg+xml", "text/html"}
Formats == {"pdf", "jpeg", "unknown"}
Files == [said : Said, is : Formats, size : {"empty", "fits", "over"}]
Family(type) == IF type \in {"application/pdf", "pdf"} THEN "pdf" ELSE "image"
Refused == [type |-> "none", extension |-> "none"]
Plan(f) == IF f.is = "pdf" THEN [type |-> "application/pdf", extension |-> "pdf"]
           ELSE [type |-> "image/jpeg", extension |-> "jpg"]
ResolveAsSaid(f) ==
  IF f.size # "fits" \/ f.said \in {"", "text/html"} THEN Refused
  ELSE Plan([f EXCEPT !.is = Family(f.said)])
Resolve(f) ==
  IF \/ f.size # "fits" \/ f.said \in {"", "text/html"} \/ f.is = "unknown"
     \/ Family(f.said) # Family(f.is)
  THEN Refused ELSE Plan(f)

-----------------------------------------------------------------------------
NoUpload == [at |-> "idle", paper |-> 0, is |-> "unknown"]
Nothing == [plan |-> Refused, is |-> "unknown", of |-> 0, whole |-> FALSE, got |-> Null]

Init ==
  /\ job = [u \in Uploads |-> NoUpload] /\ last = Nothing
  /\ refused \in 1 .. Len(Papers)
  /\ worker = "none" /\ off = FALSE /\ alive = 0

TypeOK ==
  /\ \A u \in Uploads : /\ job[u].at \in {"idle", "worker", "reading"}
                        /\ job[u].paper \in 0 .. Len(Papers) /\ job[u].is \in Formats
  /\ last.plan.extension \in {"none", "pdf", "jpg"} /\ last.whole \in BOOLEAN
  /\ refused \in 1 .. Len(Papers)
  /\ worker \in {"none", "making", "ready", "hung"} /\ off \in BOOLEAN /\ alive \in Nat

\* The recogniser is left alone for a while after it failed.
IsEnabled == ~off

\* The request goes on: the object is stored, with what was read or nothing.
Outcome(plan, j, whole, got) ==
  last' = [plan |-> plan, is |-> j.is, of |-> j.paper, whole |-> whole, got |-> got]
Done(u, whole, got) ==
  /\ job' = [job EXCEPT ![u] = NoUpload]
  /\ Outcome(Plan(job[u]), job[u], whole, got)

\* getWorker: one recogniser is made for all.
GetAnotherWorker == worker' = "making" /\ alive' = alive + 1
GetWorker ==
  IF worker = "none" THEN worker' = "making" /\ alive' = alive + 1
  ELSE UNCHANGED <<worker, alive>>

\* uploadDocument of an identity document: the plan, and isEnabled.
Upload(u) ==
  /\ job[u].at = "idle"
  /\ \E f \in Files :
       IF Resolve(f) = Refused \/ ~IsEnabled
       THEN /\ Outcome(Resolve(f), [NoUpload EXCEPT !.is = f.is], FALSE, Null)
            /\ UNCHANGED <<job, worker, alive>>
       ELSE /\ \E p \in 1 .. Len(Papers) :
                 job' = [job EXCEPT ![u] = [at |-> "worker", paper |-> p, is |-> f.is]]
            /\ last' = Nothing
            /\ GetWorker
  /\ UNCHANGED <<refused, off>>

\* createWorker fails: whoever waits goes on with nothing, and nobody asks for a while.
Waiting == {u \in Uploads : job[u].at = "worker"}
WorkerFailsForGood ==
  /\ worker = "making" /\ off' = TRUE /\ alive' = alive - 1
  /\ job' = [u \in Uploads |-> IF u \in Waiting THEN NoUpload ELSE job[u]]
  /\ last' = Nothing
  /\ UNCHANGED <<refused, worker>>
WorkerFails ==
  /\ worker = "making" /\ worker' = "none" /\ off' = TRUE /\ alive' = alive - 1
  /\ job' = [u \in Uploads |-> IF u \in Waiting THEN NoUpload ELSE job[u]]
  /\ last' = Nothing
  /\ UNCHANGED refused

\* It is made, or hangs over a picture; the cool-down ends.
WorkerMoves ==
  /\ \/ worker = "making" /\ worker' = "ready" /\ UNCHANGED off
     \/ worker = "ready" /\ worker' = "hung" /\ UNCHANGED off
     \/ off /\ off' = FALSE /\ UNCHANGED worker
  /\ last' = Nothing
  /\ UNCHANGED <<job, refused, alive>>

\* With a worker that is there, the request only waits for its turn.
Join(u) ==
  /\ job[u].at = "worker" /\ worker \in {"ready", "hung"}
  /\ job' = [job EXCEPT ![u].at = "reading"]
  /\ last' = Nothing
  /\ UNCHANGED <<refused, worker, off, alive>>

\* read: the text comes; a PDF has none.  It may throw, or pass the deadline: no hold, no
\* retry, and the worker stays as it is.
Recognise(u) ==
  LET p == Papers[job[u].paper] IN
  /\ job[u].at = "reading" /\ worker = "ready" /\ job[u].is # "pdf"
  /\ \/ \E t \in Exactly(p) \cup Lengthened(p) : Done(u, TRUE, ParseMrz(t))
     \/ \E t \in Cut(p) \cup Misread(p) : Done(u, FALSE, ParseMrz(t))
  /\ UNCHANGED <<refused, worker, off, alive>>
ReadFails(u) ==
  /\ job[u].at = "reading" /\ Done(u, FALSE, Null)
  /\ UNCHANGED <<refused, worker, off, alive>>

Next ==
  \/ \E u \in Uploads : Upload(u) \/ Join(u) \/ Recognise(u) \/ ReadFails(u)
  \/ WorkerFails \/ WorkerMoves

Spec == Init /\ [][Next]_mrzVars

-----------------------------------------------------------------------------
Tells == last.got # Null
Paper == Papers[last.of]

\* A number that is compared with those of others is the one on the document, character by
\* character, as far as a check digit can tell: where one character is misread, it is taken
\* for one whose value ends in the same digit.  No date is taken for a number, and what a
\* tail looks like does not matter.
NumberIsOnPaper ==
  Tells => LET printed == Pad(Paper.number, 9)
           IN /\ last.whole => last.got.format = Paper.layout
              /\ \A i \in 1 .. 9 :
                   Value(last.got.field[i]) % 10 = Value(printed[i]) % 10

\* submitApplication holds whoever shows a document that was refused before: not whoever
\* has one of another state, or of another kind, that has its number.
HeldForThatDocument ==
  LET before == ParseMrz(Zone(Papers[refused]))
  IN Tells /\ last.whole /\ before # Null /\ IdentityKey(last.got) = IdentityKey(before)
       => Paper.state = Papers[refused].state /\ Paper.code = Papers[refused].code

\* A zone that was seen is read, when its state writes itself with three letters.
WholeIsRead == last.whole /\ Len(Paper.state) = 3 => Tells

\* "It is not a German feature": a zone that was seen is read, whoever issued it.
EveryZoneIsRead == last.whole => Tells

\* There is one recogniser, and none is waited for that is not coming: what could not be
\* made once is made again after the cool-down.
OneRecogniser ==
  alive <= 1 /\ (worker = "none" <=> alive = 0) /\ (worker = "making" => ~off)

\* An object is kept as what it is, and never as what its header says.
StoredIsWhatItIs == last.plan # Refused => last.is # "unknown" /\ last.plan = Plan(last)

MrzHolds ==
  /\ NumberIsOnPaper /\ HeldForThatDocument /\ WholeIsRead
  /\ OneRecogniser /\ StoredIsWhatItIs
=============================================================================
