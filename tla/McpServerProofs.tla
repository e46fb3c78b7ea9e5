--------------------------- MODULE McpServerProofs ---------------------------
(***************************************************************************)
(* Proofs about module McpServer: every safety property of the main loop,  *)
(* for any number of requests and messages.                                *)
(*                                                                         *)
(* None of the properties about cancellation is inductive.  The invariant  *)
(* relates the registry to what the reader thread has read: a raised flag  *)
(* was asked for, an idle flag belongs to the call that runs, and, as long *)
(* as the request of an id is not done with, what was asked for is raised. *)
(* The last part holds because the client numbers its requests: otherwise  *)
(* the end of one call would release the flag of another.                  *)
(***************************************************************************)
EXTENDS McpServer, TLAPS

-----------------------------------------------------------------------------
(* The inductive invariant.                                                *)

Unique == \A i, j \in Requests : sent[i].id = sent[j].id => i = j

CallTaken == InCall => taken \in 1 .. Len(sent) /\ sent[taken].kind \in Tool

\* No request of this id has been taken, unless it is the call that runs.
NotDone(id) ==
  \A i \in 1 .. taken : sent[i].kind \in Request /\ sent[i].id = id => InCall /\ i = taken

FlagsTrue ==
  \A id \in Id :
    /\ flags[id] = "set" => Asked(id, read)
    /\ flags[id] = "clear" => InCall /\ sent[taken].id = id
    /\ Asked(id, read) /\ NotDone(id) => flags[id] = "set"

ToldTrue == told => InCall /\ Cancelled

LooksTrue ==
  /\ heard <= looked
  /\ InCall /\ pc # "begin" => ~Asked(sent[taken].id, looked)

StoredTrue ==
  \A s \in stored :
    /\ s.at \in 1 .. taken
    /\ InCall /\ s.at = taken => pc # "begin" /\ s.what # "candidates"

Threads == TypeOK /\ Unique /\ CallTaken /\ FlagsTrue /\ ToldTrue /\ LooksTrue /\ StoredTrue
\* An answer belongs to a message taken, and was given when less had been read.
AnswersTrue ==
  \A k \in 1 .. Len(answers) :
    /\ answers[k].at \in 1 .. taken
    /\ answers[k].heard <= read /\ answers[k].looked <= read

Said == AnswersTrue /\ OneAnswerEach /\ OnlyIfAsked /\ Honoured /\ NothingHalfGenerated

-----------------------------------------------------------------------------
(* Messages.                                                               *)

LEMMA Messages ==
  ASSUME NEW m \in Message
  PROVE  /\ m.kind \in Request \cup {"cancel", "garbled"}
         /\ m.kind # "garbled" => m.id \in Id
         /\ m.kind \in Tool => m.kind \in Request /\ m.kind # "cancel"
<1>1. CASE m \in [kind : Request \cup {"cancel"}, id : Id]
  <2>1. m.kind \in Request \cup {"cancel"} /\ m.id \in Id
    BY <1>1
  <2> QED
    BY <2>1 DEF Request, Tool
<1>2. CASE m \in [kind : {"garbled"}, id : {0}]
  <2>1. m.kind = "garbled"
    BY <1>2
  <2> QED
    BY <2>1 DEF Request, Tool
<1> QED
  BY <1>1, <1>2 DEF Message

\* The messages sent, by their place.
LEMMA SentTyped ==
  ASSUME TypeOK
  PROVE  /\ Len(sent) \in Nat /\ read \in Nat /\ taken \in Nat
         /\ read <= Len(sent) /\ taken <= read
         /\ heard \in Nat /\ looked \in Nat /\ heard <= read /\ looked <= read
         /\ \A i \in 1 .. Len(sent) : sent[i] \in Message
BY DEF TypeOK

LEMMA ElementTyped ==
  ASSUME NEW R, NEW s \in Seq(R), NEW k \in 1 .. Len(s)
  PROVE  s[k] \in R
OBVIOUS

LEMMA SentGrows ==
  ASSUME TypeOK, NEW m \in Message, sent' = Append(sent, m)
  PROVE  /\ sent' \in Seq(Message) /\ Len(sent') = Len(sent) + 1
         /\ sent'[Len(sent) + 1] = m
         /\ \A i \in 1 .. Len(sent) : sent'[i] = sent[i]
BY DEF TypeOK

\* What has been read does not change.
LEMMA AskedStays ==
  ASSUME TypeOK, NEW n \in Nat, n <= Len(sent),
         Len(sent') \in Nat, Len(sent') >= Len(sent),
         \A i \in 1 .. Len(sent) : sent'[i] = sent[i]
  PROVE  \A id : (\E j \in 1 .. n : j \in 1 .. Len(sent') /\ sent'[j] = Cancel(id))
                   <=> Asked(id, n)
<1>1. \A j \in 1 .. n : j \in 1 .. Len(sent) /\ j \in 1 .. Len(sent')
  BY SentTyped
<1>2. \A j \in 1 .. n : sent'[j] = sent[j]
  BY <1>1
<1> QED
  BY <1>1, <1>2 DEF Asked

LEMMA AskedMore ==
  ASSUME NEW n \in Nat, NEW m \in Nat, n <= m, NEW id, Asked(id, n)
  PROVE  Asked(id, m)
BY DEF Asked

-----------------------------------------------------------------------------
(* The initial states.                                                     *)

LEMMA InitThreads == Init => Threads
<1> SUFFICES ASSUME Init PROVE Threads
  OBVIOUS
<1>1. TypeOK
  <2>1. flags \in [Id -> {"none", "clear", "set"}]
    BY DEF Init
  <2>2. sent \in Seq(Message) /\ Len(sent) = 0
    BY DEF Init
  <2>3. answers \in Seq([at : Nat, what : What, heard : Nat, looked : Nat])
    BY DEF Init
  <2>4. read = 0 /\ taken = 0 /\ heard = 0 /\ looked = 0
    BY DEF Init
  <2>5. /\ open \in BOOLEAN /\ draining \in BOOLEAN /\ initialized \in BOOLEAN
        /\ told \in BOOLEAN
    BY DEF Init
  <2>6. /\ pc = "idle" /\ stored = {}
    BY DEF Init
  <2>7. /\ read \in 0 .. Len(sent) /\ taken \in 0 .. read
        /\ heard \in 0 .. read /\ looked \in 0 .. read
    BY <2>2, <2>4
  <2> QED
    BY <2>1, <2>2, <2>3, <2>5, <2>6, <2>7 DEF TypeOK
<1>2. Unique /\ CallTaken /\ ToldTrue /\ LooksTrue /\ StoredTrue
  BY DEF Init, Unique, Requests, CallTaken, InCall, ToldTrue, LooksTrue, StoredTrue
<1>3. FlagsTrue
  BY DEF Init, FlagsTrue, Asked
<1> QED
  BY <1>1, <1>2, <1>3 DEF Threads

LEMMA InitSaid == Init => Said
<1> SUFFICES ASSUME Init PROVE Said
  OBVIOUS
<1>1. answers = <<>> /\ taken = 0
  BY DEF Init
<1>2. OneAnswerEach
  BY <1>1 DEF OneAnswerEach, Answered
<1>3. AnswersTrue /\ OnlyIfAsked /\ Honoured /\ NothingHalfGenerated
  BY <1>1 DEF AnswersTrue, OnlyIfAsked, Honoured, NothingHalfGenerated
<1> QED
  BY <1>2, <1>3 DEF Said

-----------------------------------------------------------------------------
(* The client and the reader thread.                                       *)

LEMMA SendKeeps ==
  ASSUME Threads, Said, NEW m \in Message, Send(m)
  PROVE  Threads' /\ Said'
<1>1. /\ sent' = Append(sent, m)
      /\ UNCHANGED <<open, read, draining, taken, initialized, flags, pc, told, stored,
                     answers, heard, looked>>
      /\ m.kind \in Request => Fresh(m.id)
  BY DEF Send, toolVars
<1>2. TypeOK
  BY DEF Threads
<1>3. /\ sent' \in Seq(Message) /\ Len(sent') = Len(sent) + 1
      /\ sent'[Len(sent) + 1] = m
      /\ \A i \in 1 .. Len(sent) : sent'[i] = sent[i]
  BY <1>1, <1>2, SentGrows
<1>4. /\ Len(sent) \in Nat /\ read \in Nat /\ taken \in Nat
      /\ read <= Len(sent) /\ taken <= read
      /\ heard \in Nat /\ looked \in Nat /\ heard <= read /\ looked <= read
  BY <1>2, SentTyped
<1>5. TypeOK'
  BY <1>1, <1>2, <1>3, <1>4 DEF TypeOK
<1>6. ASSUME NEW n \in Nat, n <= Len(sent) PROVE \A id : Asked(id, n)' <=> Asked(id, n)
  BY <1>2, <1>3, <1>4, <1>6, AskedStays DEF Asked
<1>7. InCall' <=> InCall
  BY <1>1 DEF InCall
<1>8. InCall => taken \in 1 .. Len(sent)
  BY DEF Threads, CallTaken
<1>9. CallTaken'
  BY <1>1, <1>3, <1>4, <1>7 DEF Threads, CallTaken
<1>10. Unique'
  <2>1. ASSUME NEW i \in Requests', i \in 1 .. Len(sent) PROVE i \in Requests /\ sent'[i] = sent[i]
    BY <1>3, <2>1 DEF Requests
  <2>2. ASSUME NEW i \in Requests', i \notin 1 .. Len(sent) PROVE i = Len(sent) + 1 /\ m.kind \in Request
    BY <1>3, <1>4, <2>2 DEF Requests
  <2> QED
    BY <1>1, <1>3, <2>1, <2>2 DEF Threads, Unique, Fresh
<1>11. \A id : NotDone(id)' <=> NotDone(id)
  BY <1>1, <1>3, <1>4, <1>7 DEF NotDone
<1>12. FlagsTrue'
  <2>1. \A id : Asked(id, read)' <=> Asked(id, read)
    BY <1>1, <1>4, <1>6
  <2> QED
    BY <1>1, <1>3, <1>7, <1>8, <1>11, <2>1 DEF Threads, FlagsTrue
<1>13. ToldTrue' /\ StoredTrue'
  BY <1>1, <1>3, <1>7, <1>8 DEF Threads, ToldTrue, StoredTrue, Cancelled, Key
<1>14. LooksTrue'
  <2>1. \A id : Asked(id, looked)' <=> Asked(id, looked)
    BY <1>1, <1>4, <1>6
  <2> QED
    BY <1>1, <1>3, <1>7, <1>8, <2>1 DEF Threads, LooksTrue
<1>15. Answered' = Answered
  BY <1>1 DEF Answered
<1>16. \A k \in 1 .. Len(answers) :
         /\ answers[k].at \in 1 .. Len(sent) /\ sent'[answers[k].at] = sent[answers[k].at]
         /\ answers[k].heard \in Nat /\ answers[k].looked \in Nat
         /\ answers[k].heard <= Len(sent) /\ answers[k].looked <= Len(sent)
  <2> SUFFICES ASSUME NEW k \in 1 .. Len(answers)
               PROVE /\ answers[k].at \in 1 .. Len(sent)
                     /\ answers[k].heard \in Nat /\ answers[k].looked \in Nat
                     /\ answers[k].heard <= Len(sent) /\ answers[k].looked <= Len(sent)
    BY <1>3
  <2>1. answers[k] \in [at : Nat, what : What, heard : Nat, looked : Nat]
    BY <1>2, ElementTyped DEF TypeOK
  <2>2. /\ answers[k].at \in 1 .. taken
        /\ answers[k].heard <= read /\ answers[k].looked <= read
    BY DEF Said, AnswersTrue
  <2> QED
    BY <1>4, <2>1, <2>2
<1>17. AnswersTrue'
  BY <1>1 DEF Said, AnswersTrue
<1>18. OneAnswerEach'
  <2>1. \A i \in 1 .. taken : sent'[i] = sent[i]
    BY <1>3, <1>4
  <2> QED
    BY <1>1, <1>7, <1>15, <2>1 DEF Said, OneAnswerEach, Answerable
<1>19. OnlyIfAsked'
  <2>1. \A id : Asked(id, read)' <=> Asked(id, read)
    BY <1>1, <1>4, <1>6
  <2> QED
    BY <1>1, <1>16, <2>1 DEF Said, OnlyIfAsked
<1>20. Honoured'
  <2> SUFFICES ASSUME NEW k \in 1 .. Len(answers), sent[answers[k].at].kind \in Tool \ {"quick"}
               PROVE /\ answers[k].what = "ok" => ~Asked(sent[answers[k].at].id, answers[k].looked)'
                     /\ Asked(sent[answers[k].at].id, answers[k].heard)' =>
                          \A s \in stored : s.at # answers[k].at
    BY <1>1, <1>16 DEF Honoured
  <2>1. /\ Asked(sent[answers[k].at].id, answers[k].looked)'
             <=> Asked(sent[answers[k].at].id, answers[k].looked)
        /\ Asked(sent[answers[k].at].id, answers[k].heard)'
             <=> Asked(sent[answers[k].at].id, answers[k].heard)
    BY <1>1, <1>6, <1>16
  <2> QED
    BY <2>1 DEF Said, Honoured
<1>21. NothingHalfGenerated'
  BY <1>1 DEF Said, NothingHalfGenerated
<1> QED
  BY <1>5, <1>9, <1>10, <1>12, <1>13, <1>14, <1>17, <1>18, <1>19, <1>20, <1>21
     DEF Threads, Said

\* Closing stdin, and the end of the reader thread or of the main loop.
LEMMA SilentKeeps ==
  ASSUME Threads, Said, Close \/ ReadEnd \/ End
  PROVE  Threads' /\ Said'
<1>1. /\ UNCHANGED <<sent, read, taken, initialized, flags, told, stored, answers, heard, looked>>
      /\ open' \in BOOLEAN /\ draining' \in BOOLEAN
      /\ pc' = pc \/ (pc = "idle" /\ pc' = "ended")
  BY DEF Close, ReadEnd, End, toolVars, Threads, TypeOK
<1>2. InCall' <=> InCall
  BY <1>1 DEF InCall
<1>3. InCall => pc' = pc
  BY <1>1 DEF InCall
<1>4. TypeOK'
  BY <1>1 DEF Threads, TypeOK
<1>5. Unique' /\ CallTaken' /\ ToldTrue'
  BY <1>1, <1>2 DEF Threads, Unique, Requests, CallTaken, ToldTrue, Cancelled
<1>6. FlagsTrue'
  BY <1>1, <1>2 DEF Threads, FlagsTrue, Asked, NotDone
<1>7. LooksTrue' /\ StoredTrue'
  BY <1>1, <1>2, <1>3 DEF Threads, LooksTrue, StoredTrue, Asked
<1>8. AnswersTrue' /\ OnlyIfAsked' /\ Honoured' /\ NothingHalfGenerated'
  BY <1>1 DEF Said, AnswersTrue, OnlyIfAsked, Honoured, NothingHalfGenerated, Asked
<1>9. OneAnswerEach'
  BY <1>1, <1>2 DEF Said, OneAnswerEach, Answered
<1> QED
  BY <1>4, <1>5, <1>6, <1>7, <1>8, <1>9 DEF Threads, Said

LEMMA Cancels ==
  ASSUME NEW m \in Message
  PROVE  /\ m.kind = "cancel" => m.id \in Id /\ m = Cancel(m.id)
         /\ \A id : m = Cancel(id) => m.kind = "cancel" /\ m.id = id
BY DEF Message, Cancel, Request, Tool

LEMMA ReadKeeps ==
  ASSUME Threads, Said, Read
  PROVE  Threads' /\ Said'
<1> DEFINE m == sent[read + 1]
<1>1. /\ read < Len(sent) /\ read' = read + 1
      /\ flags' = IF m.kind = "cancel" THEN Raised(m.id) ELSE flags
      /\ UNCHANGED <<sent, open, draining, taken, initialized, pc, told, stored, answers,
                     heard, looked>>
  BY DEF Read, toolVars
<1>2. TypeOK
  BY DEF Threads
<1>3. /\ Len(sent) \in Nat /\ read \in Nat /\ taken \in Nat
      /\ read <= Len(sent) /\ taken <= read
      /\ heard \in Nat /\ looked \in Nat /\ heard <= read /\ looked <= read
      /\ \A i \in 1 .. Len(sent) : sent[i] \in Message
  BY <1>2, SentTyped
<1>4. m \in Message
  BY <1>1, <1>3
<1>5. /\ m.kind = "cancel" => m.id \in Id /\ m = Cancel(m.id)
      /\ \A id : m = Cancel(id) => m.kind = "cancel" /\ m.id = id
  BY <1>4, Cancels
<1>6. flags \in [Id -> {"none", "clear", "set"}]
  BY <1>2 DEF TypeOK
<1>7. /\ flags' \in [Id -> {"none", "clear", "set"}]
      /\ \A id \in Id : flags'[id] = IF m = Cancel(id) THEN "set" ELSE flags[id]
  BY <1>1, <1>5, <1>6 DEF Raised, Key
<1>8. \A id : Asked(id, read)' <=> Asked(id, read) \/ m = Cancel(id)
  <2> SUFFICES ASSUME NEW id PROVE Asked(id, read)' <=> Asked(id, read) \/ m = Cancel(id)
    OBVIOUS
  <2>1. Asked(id, read)' <=> \E j \in 1 .. read + 1 : j \in 1 .. Len(sent) /\ sent[j] = Cancel(id)
    BY <1>1 DEF Asked
  <2>2. \A j : j \in 1 .. read + 1 <=> j \in 1 .. read \/ j = read + 1
    BY <1>3
  <2>3. read + 1 \in 1 .. Len(sent)
    BY <1>1, <1>3
  <2> QED
    BY <2>1, <2>2, <2>3 DEF Asked
<1> HIDE DEF m
<1>9. InCall' <=> InCall
  BY <1>1 DEF InCall
<1>10. TypeOK'
  BY <1>1, <1>2, <1>3, <1>7 DEF TypeOK
<1>11. Unique' /\ CallTaken' /\ StoredTrue'
  BY <1>1, <1>9 DEF Threads, Unique, Requests, CallTaken, StoredTrue
<1>12. FlagsTrue'
  <2>1. \A id : NotDone(id)' <=> NotDone(id)
    BY <1>1, <1>9 DEF NotDone
  <2>2. ASSUME NEW id \in Id
        PROVE  /\ flags'[id] = "set" => Asked(id, read)'
               /\ flags'[id] = "clear" => InCall /\ sent[taken].id = id
               /\ Asked(id, read)' /\ NotDone(id) => flags'[id] = "set"
    BY <1>7, <1>8 DEF Threads, FlagsTrue
  <2> QED
    BY <1>1, <1>9, <2>1, <2>2 DEF FlagsTrue
<1>13. ToldTrue'
  <2>1. InCall => sent[taken].id \in Id
    BY <1>3, Messages DEF Threads, CallTaken, Tool
  <2> QED
    BY <1>1, <1>7, <1>9, <2>1 DEF Threads, ToldTrue, Cancelled, Key
<1>14. LooksTrue'
  BY <1>1, <1>9 DEF Threads, LooksTrue, Asked
<1>15. AnswersTrue'
  <2> SUFFICES ASSUME NEW k \in 1 .. Len(answers)
               PROVE  answers[k].heard <= read' /\ answers[k].looked <= read'
    BY <1>1 DEF Said, AnswersTrue
  <2>1. answers[k] \in [at : Nat, what : What, heard : Nat, looked : Nat]
    BY <1>2, ElementTyped DEF TypeOK
  <2>2. answers[k].heard <= read /\ answers[k].looked <= read
    BY DEF Said, AnswersTrue
  <2> QED
    BY <1>1, <1>3, <2>1, <2>2
<1>16. OneAnswerEach'
  BY <1>1, <1>9 DEF Said, OneAnswerEach, Answered
<1>17. OnlyIfAsked'
  BY <1>1, <1>8 DEF Said, OnlyIfAsked
<1>18. Honoured' /\ NothingHalfGenerated'
  BY <1>1 DEF Said, Honoured, NothingHalfGenerated, Asked
<1> QED
  BY <1>10, <1>11, <1>12, <1>13, <1>14, <1>15, <1>16, <1>17, <1>18 DEF Threads, Said

-----------------------------------------------------------------------------
(* Answers.                                                                *)

LEMMA Appended ==
  ASSUME NEW R, NEW s \in Seq(R), NEW a \in R, NEW u, u = Append(s, a)
  PROVE  /\ u \in Seq(R) /\ Len(u) = Len(s) + 1 /\ Len(s) \in Nat
         /\ u[Len(s) + 1] = a
         /\ \A k \in 1 .. Len(s) : u[k] = s[k]
         /\ \A k \in 1 .. Len(u) : k \in 1 .. Len(s) \/ k = Len(s) + 1
OBVIOUS

\* Message t, the last one taken, gets its answer: what was said before stays
\* right, and the new answer is right if it fits what was read and stored.
LEMMA OneMoreAnswer ==
  ASSUME Threads, Said, NEW t \in 1 .. read, NEW w \in What,
         NEW h \in Nat, NEW l \in Nat, h <= read, l <= read,
         answers' = Append(answers, [at |-> t, what |-> w, heard |-> h, looked |-> l]),
         sent' = sent, read' = read, taken' = t, ~InCall', Answerable(sent[t]),
         (t = taken /\ InCall) \/ (t = taken + 1 /\ ~InCall),
         \A s \in stored' : s \in stored \/ s.at = t,
         w = "cancelled" => /\ Asked(sent[t].id, read)
                            /\ [at |-> t, what |-> "candidates"] \notin stored',
         sent[t].kind \in Tool \ {"quick"} =>
           /\ w = "ok" => ~Asked(sent[t].id, l)
           /\ Asked(sent[t].id, h) => \A s \in stored' : s.at # t
  PROVE  Said' /\ answers' \in Seq([at : Nat, what : What, heard : Nat, looked : Nat])
<1> DEFINE R == [at : Nat, what : What, heard : Nat, looked : Nat]
           a == [at |-> t, what |-> w, heard |-> h, looked |-> l]
           n == Len(answers)
<1>1. /\ Len(sent) \in Nat /\ read \in Nat /\ taken \in Nat
      /\ read <= Len(sent) /\ taken <= read
  BY SentTyped DEF Threads
<1>2. a \in R /\ a.at = t /\ a.what = w /\ a.heard = h /\ a.looked = l
  BY <1>1
<1>3. answers \in Seq(R)
  BY DEF Threads, TypeOK
<1> HIDE DEF R, a
<1>4. answers' = Append(answers, a)
  BY DEF a
<1>5. /\ answers' \in Seq(R) /\ Len(answers') = n + 1 /\ n \in Nat
      /\ answers'[n + 1] = a
      /\ \A k \in 1 .. n : answers'[k] = answers[k]
      /\ \A k \in 1 .. Len(answers') : k \in 1 .. n \/ k = n + 1
  BY <1>2, <1>3, <1>4, Appended
<1>6. \A k \in 1 .. n : answers[k] \in [at : Nat, what : What, heard : Nat, looked : Nat]
  BY <1>3, ElementTyped DEF R
<1>7. ASSUME NEW k \in 1 .. n PROVE answers[k].at \in 1 .. taken /\ answers[k].at < t
  <2>1. answers[k].at \in 1 .. taken /\ answers[k].at \in Answered
    BY DEF Said, AnswersTrue, Answered
  <2>2. ~(InCall /\ answers[k].at = taken)
    BY <2>1 DEF Said, OneAnswerEach
  <2> QED
    BY <1>1, <2>1, <2>2
<1>8. AnswersTrue'
  <2> SUFFICES ASSUME NEW k \in 1 .. Len(answers')
               PROVE /\ answers'[k].at \in 1 .. t
                     /\ answers'[k].heard <= read /\ answers'[k].looked <= read
    BY DEF AnswersTrue
  <2>1. CASE k \in 1 .. n
    BY <1>1, <1>5, <1>7, <2>1 DEF Said, AnswersTrue
  <2>2. CASE k = n + 1
    BY <1>1, <1>2, <1>5, <2>2
  <2> QED
    BY <1>5, <2>1, <2>2
<1>9. OneAnswerEach'
  <2>1. \A j, k \in 1 .. Len(answers') : j < k => answers'[j].at < answers'[k].at
    <3> SUFFICES ASSUME NEW j \in 1 .. Len(answers'), NEW k \in 1 .. Len(answers'), j < k
                 PROVE  answers'[j].at < answers'[k].at
      OBVIOUS
    <3>1. j \in 1 .. n
      BY <1>5
    <3>2. CASE k \in 1 .. n
      BY <1>5, <3>1, <3>2 DEF Said, OneAnswerEach
    <3>3. CASE k = n + 1
      BY <1>2, <1>5, <1>7, <3>1, <3>3
    <3> QED
      BY <1>5, <3>2, <3>3
  <2>2. Answered' = Answered \cup {t}
    <3>1. Answered' = {answers'[k].at : k \in 1 .. n + 1}
      BY <1>5 DEF Answered
    <3>2. \A k : k \in 1 .. n + 1 <=> k \in 1 .. n \/ k = n + 1
      BY <1>5
    <3>3. \A i \in Answered' : i \in Answered \cup {t}
      BY <1>2, <1>5, <3>1, <3>2 DEF Answered
    <3>4. t \in Answered'
      BY <1>2, <1>5, <3>1, <3>2
    <3>5. \A i \in Answered : i \in Answered'
      BY <1>5, <3>1, <3>2 DEF Answered
    <3> QED
      BY <3>3, <3>4, <3>5
  <2>3. Answered = {i \in 1 .. taken : Answerable(sent[i]) /\ ~(InCall /\ i = taken)}
    BY DEF Said, OneAnswerEach
  <2>4. \A i : i \in Answered \cup {t} <=> i \in 1 .. t /\ Answerable(sent[i])
    <3>1. \A i : i \in 1 .. t <=> (i \in 1 .. taken /\ ~(InCall /\ i = taken)) \/ i = t
      BY <1>1
    <3> QED
      BY <2>3, <3>1
  <2>5. Answered' = {i \in 1 .. t : Answerable(sent[i])}
    BY <2>2, <2>4
  <2> QED
    BY <2>1, <2>5 DEF OneAnswerEach, Answerable
<1>10. OnlyIfAsked'
  <2> SUFFICES ASSUME NEW k \in 1 .. Len(answers'), answers'[k].what = "cancelled"
               PROVE  Asked(sent[answers'[k].at].id, read)
    BY DEF OnlyIfAsked, Asked
  <2>1. CASE k \in 1 .. n
    BY <1>5, <2>1 DEF Said, OnlyIfAsked
  <2>2. CASE k = n + 1
    BY <1>2, <1>5, <2>2
  <2> QED
    BY <1>5, <2>1, <2>2
<1>11. Honoured'
  <2> SUFFICES ASSUME NEW k \in 1 .. Len(answers'),
                      sent[answers'[k].at].kind \in Tool \ {"quick"}
               PROVE  /\ answers'[k].what = "ok" => ~Asked(sent[answers'[k].at].id, answers'[k].looked)
                      /\ Asked(sent[answers'[k].at].id, answers'[k].heard) =>
                           \A s \in stored' : s.at # answers'[k].at
    BY DEF Honoured, Asked
  <2>1. CASE k \in 1 .. n
    <3>1. /\ answers[k].what = "ok" => ~Asked(sent[answers[k].at].id, answers[k].looked)
          /\ Asked(sent[answers[k].at].id, answers[k].heard) =>
               \A s \in stored : s.at # answers[k].at
      BY <1>5, <2>1 DEF Said, Honoured
    <3>2. \A s \in stored' : s \in stored \/ s.at # answers[k].at
      BY <1>7, <2>1
    <3> QED
      BY <1>5, <2>1, <3>1, <3>2
  <2>2. CASE k = n + 1
    BY <1>2, <1>5, <2>2
  <2> QED
    BY <1>5, <2>1, <2>2
<1>12. NothingHalfGenerated'
  <2> SUFFICES ASSUME NEW k \in 1 .. Len(answers'), answers'[k].what = "cancelled"
               PROVE  [at |-> answers'[k].at, what |-> "candidates"] \notin stored'
    BY DEF NothingHalfGenerated
  <2>1. CASE k \in 1 .. n
    <3>1. [at |-> answers[k].at, what |-> "candidates"] \notin stored
      BY <1>5, <2>1 DEF Said, NothingHalfGenerated
    <3>2. [at |-> answers[k].at, what |-> "candidates"].at # t
      BY <1>7, <2>1
    <3> QED
      BY <1>5, <2>1, <3>1, <3>2
  <2>2. CASE k = n + 1
    BY <1>2, <1>5, <2>2
  <2> QED
    BY <1>5, <2>1, <2>2
<1> QED
  BY <1>5, <1>8, <1>9, <1>10, <1>11, <1>12 DEF Said, R

-----------------------------------------------------------------------------
(* The main thread, between two messages.                                  *)

\* Where the main thread and the reader are when a message is taken.
LEMMA Taking ==
  ASSUME Threads, Take
  PROVE  /\ ~InCall /\ pc = "idle" /\ ~told
         /\ taken' = taken + 1 /\ taken + 1 \in 1 .. read /\ taken + 1 \in 1 .. Len(sent)
         /\ taken \in Nat /\ read \in Nat /\ Len(sent) \in Nat
         /\ heard \in 0 .. read /\ looked \in 0 .. read /\ read \in 0 .. Len(sent)
         /\ \A i : i \in 1 .. taken + 1 <=> i \in 1 .. taken \/ i = taken + 1
         /\ sent[taken + 1] \in Message
         /\ \A id \in Id : flags[id] # "clear"
<1>1. /\ Len(sent) \in Nat /\ read \in Nat /\ taken \in Nat
      /\ read <= Len(sent) /\ taken <= read
      /\ heard \in 0 .. read /\ looked \in 0 .. read /\ read \in 0 .. Len(sent)
      /\ \A i \in 1 .. Len(sent) : sent[i] \in Message
  BY SentTyped DEF Threads, TypeOK
<1>2. ~InCall /\ pc = "idle" /\ taken' = taken + 1 /\ taken < read
  BY DEF Take, InCall
<1>3. ~told /\ \A id \in Id : flags[id] # "clear"
  BY <1>2 DEF Threads, ToldTrue, FlagsTrue
<1> QED
  BY <1>1, <1>2, <1>3

LEMMA AtOnceKeeps ==
  ASSUME Threads, Said, NEW w \in {"ok", "error"}, Take, AtOnce(w),
         Answerable(sent[taken']), sent[taken'].kind \in Tool => w = "error",
         initialized' \in BOOLEAN
  PROVE  Threads' /\ Said'
<1> DEFINE t == taken + 1
<1>1. /\ heard' = read /\ looked' = read
      /\ UNCHANGED <<sent, open, read, draining, flags, pc, told, stored>>
      /\ answers' = Append(answers, [at |-> t, what |-> w, heard |-> read, looked |-> read])
  BY Taking DEF AtOnce, Answer, toolVars
<1>2. ~InCall'
  BY <1>1, Taking DEF InCall
<1>3. taken' = t /\ t \in 1 .. read /\ ~InCall /\ taken \in Nat /\ read \in Nat
  BY Taking
<1>4. w \in What /\ w # "cancelled"
  BY DEF What
<1>5. \A s \in stored : s.at # t
  BY <1>3 DEF Threads, StoredTrue
<1>6. Said' /\ answers' \in Seq([at : Nat, what : What, heard : Nat, looked : Nat])
  <2> HIDE DEF t
  <2>1. /\ Answerable(sent[t]) /\ (sent[t].kind \in Tool => w = "error")
    BY <1>3
  <2>2. (t = taken /\ InCall) \/ (t = taken + 1 /\ ~InCall)
    BY <1>3 DEF t
  <2>3. /\ read <= read
        /\ sent' = sent /\ read' = read
        /\ \A s \in stored' : s \in stored \/ s.at = t
    BY <1>1, <1>3
  <2>4. sent[t].kind \in Tool \ {"quick"} =>
          /\ w = "ok" => ~Asked(sent[t].id, read)
          /\ Asked(sent[t].id, read) => \A s \in stored' : s.at # t
    BY <1>1, <1>5, <2>1
  <2> QED
    BY <1>1, <1>2, <1>3, <1>4, <2>1, <2>2, <2>3, <2>4, OneMoreAnswer
<1>7. TypeOK'
  <2>1. taken' \in 0 .. read' /\ heard' \in 0 .. read' /\ looked' \in 0 .. read'
    BY <1>1, <1>3
  <2> QED
    BY <1>1, <1>6, <2>1 DEF Threads, TypeOK
<1>8. Unique' /\ CallTaken' /\ ToldTrue'
  BY <1>1, <1>2, Taking DEF Threads, Unique, Requests, CallTaken, ToldTrue
<1>9. FlagsTrue'
  <2>1. \A id \in Id : NotDone(id)' => NotDone(id)
    BY <1>1, <1>2, Taking DEF NotDone
  <2> QED
    BY <1>1, <2>1, Taking DEF Threads, FlagsTrue, Asked
<1>10. LooksTrue' /\ StoredTrue'
  BY <1>1, <1>2, Taking DEF Threads, LooksTrue, StoredTrue
<1> QED
  BY <1>6, <1>7, <1>8, <1>9, <1>10 DEF Threads

LEMMA TakeCancelKeeps ==
  ASSUME Threads, Said, TakeCancel
  PROVE  Threads' /\ Said'
<1> DEFINE m == sent[taken + 1]
<1>1. /\ Take /\ m.kind = "cancel" /\ flags' = Raised(m.id)
      /\ UNCHANGED <<sent, open, read, draining, initialized, pc, told, stored, answers,
                     heard, looked>>
  BY DEF TakeCancel, Takes, Take, toolVars
<1>2. m.id \in Id /\ m = Cancel(m.id)
  BY <1>1, Taking, Cancels
<1>3. ~InCall' /\ ~InCall /\ taken' = taken + 1
  BY <1>1, Taking DEF InCall
<1>4. flags \in [Id -> {"none", "clear", "set"}]
  BY DEF Threads, TypeOK
<1>5. /\ flags' \in [Id -> {"none", "clear", "set"}]
      /\ \A id \in Id : flags'[id] = IF id = m.id THEN "set" ELSE flags[id]
  BY <1>1, <1>2, <1>4 DEF Raised, Key
<1>6. Asked(m.id, read)
  BY <1>1, <1>2, Taking DEF Asked
<1> HIDE DEF m
<1>7. TypeOK'
  <2>1. taken' \in 0 .. read'
    BY <1>1, Taking
  <2> QED
    BY <1>1, <1>5, <2>1 DEF Threads, TypeOK
<1>8. Unique' /\ CallTaken' /\ ToldTrue'
  BY <1>1, <1>3, Taking DEF Threads, Unique, Requests, CallTaken, ToldTrue
<1>9. FlagsTrue'
  <2>1. \A id \in Id : NotDone(id)' => NotDone(id)
    BY <1>1, <1>3, Taking DEF NotDone
  <2> QED
    BY <1>1, <1>3, <1>5, <1>6, <2>1, Taking DEF Threads, FlagsTrue, Asked
<1>10. LooksTrue' /\ StoredTrue'
  BY <1>1, <1>3, Taking DEF Threads, LooksTrue, StoredTrue
<1>11. AnswersTrue' /\ OnlyIfAsked' /\ Honoured' /\ NothingHalfGenerated'
  BY <1>1, Taking DEF Said, AnswersTrue, OnlyIfAsked, Honoured, NothingHalfGenerated, Asked
<1>12. OneAnswerEach'
  <2>1. ~Answerable(sent[taken + 1])
    BY <1>1 DEF Answerable, m
  <2>2. Answered' = Answered
    BY <1>1 DEF Answered
  <2> QED
    BY <1>1, <1>3, <2>1, <2>2, Taking DEF Said, OneAnswerEach
<1> QED
  BY <1>7, <1>8, <1>9, <1>10, <1>11, <1>12 DEF Threads, Said

LEMMA TakeCallKeeps ==
  ASSUME Threads, Said, TakeCall
  PROVE  Threads' /\ Said'
<1> DEFINE m == sent[taken + 1]
<1>1. /\ Take /\ m.kind \in Tool /\ pc' = "begin"
      /\ flags' = [flags EXCEPT ![m.id] = IF @ = "none" THEN "clear" ELSE @]
      /\ heard' = read /\ looked' = read
      /\ UNCHANGED <<sent, open, read, draining, initialized, told, stored, answers>>
  BY DEF TakeCall, Takes, Take, Key
<1>2. m.id \in Id /\ m.kind \in Request /\ m.kind # "cancel"
  BY <1>1, Taking, Messages DEF Tool
<1>3. InCall' /\ ~InCall /\ taken' = taken + 1
  BY <1>1, Taking DEF InCall
<1>4. flags \in [Id -> {"none", "clear", "set"}]
  BY DEF Threads, TypeOK
<1>5. /\ flags' \in [Id -> {"none", "clear", "set"}]
      /\ \A id \in Id : flags'[id] = IF id = m.id /\ flags[id] = "none" THEN "clear" ELSE flags[id]
  BY <1>1, <1>2, <1>4
<1>6. \A i \in 1 .. taken : ~(sent[i].kind \in Request /\ sent[i].id = m.id)
  <2>1. taken + 1 \in Requests
    BY <1>1, <1>2, Taking DEF Requests
  <2>2. ASSUME NEW i \in 1 .. taken, sent[i].kind \in Request PROVE i \in Requests /\ i # taken + 1
    BY <2>2, <1>1, Taking DEF Requests
  <2> QED
    BY <2>1, <2>2 DEF Threads, Unique
<1>7. Asked(m.id, read) => flags[m.id] = "set"
  BY <1>2, <1>6 DEF Threads, FlagsTrue, NotDone
<1>8. taken' \in 1 .. Len(sent) /\ sent'[taken'] = m
  BY <1>1, Taking
<1> HIDE DEF m
<1>9. TypeOK'
  <2>1. taken' \in 0 .. read' /\ heard' \in 0 .. read' /\ looked' \in 0 .. read'
    BY <1>1, Taking
  <2> QED
    BY <1>1, <1>5, <2>1 DEF Threads, TypeOK
<1>10. Unique' /\ CallTaken' /\ ToldTrue'
  BY <1>1, <1>8, Taking DEF Threads, Unique, Requests, CallTaken, ToldTrue
<1>11. FlagsTrue'
  <2>1. \A id \in Id : id # m.id /\ NotDone(id)' => NotDone(id)
    BY <1>1, <1>3, <1>8, Taking DEF NotDone
  <2>2. \A id : Asked(id, read)' <=> Asked(id, read)
    BY <1>1 DEF Asked
  <2>3. \A id \in Id : flags[id] = "clear" => FALSE
    BY <1>1, Taking
  <2>4. ASSUME NEW id \in Id
        PROVE  /\ flags'[id] = "set" => Asked(id, read)
               /\ flags'[id] = "clear" => m.id = id
               /\ Asked(id, read) /\ NotDone(id)' => flags'[id] = "set"
    BY <1>5, <1>7, <2>1, <2>3 DEF Threads, FlagsTrue
  <2> QED
    BY <1>3, <1>8, <2>2, <2>4 DEF FlagsTrue
<1>12. LooksTrue' /\ StoredTrue'
  BY <1>1, <1>3, Taking DEF Threads, LooksTrue, StoredTrue
<1>13. AnswersTrue' /\ OnlyIfAsked' /\ Honoured' /\ NothingHalfGenerated'
  BY <1>1, Taking DEF Said, AnswersTrue, OnlyIfAsked, Honoured, NothingHalfGenerated, Asked
<1>14. OneAnswerEach'
  <2>1. Answered' = Answered
    BY <1>1 DEF Answered
  <2> QED
    BY <1>1, <1>3, <2>1, Taking DEF Said, OneAnswerEach
<1> QED
  BY <1>9, <1>10, <1>11, <1>12, <1>13, <1>14 DEF Threads, Said

-----------------------------------------------------------------------------
(* The main thread, in a tool call.                                        *)

Kept == {"analysis", "candidates", "variant", "variants"}

\* The call that runs: its place, its id, and what its flag says.
LEMMA Calling ==
  ASSUME Threads, InCall
  PROVE  /\ taken \in 1 .. read /\ taken \in 1 .. Len(sent) /\ taken \in Nat /\ read \in Nat
         /\ sent[taken].kind \in Tool /\ sent[taken].kind \in Request
         /\ Answerable(sent[taken]) /\ sent[taken].id \in Id
         /\ Cancelled <=> flags[sent[taken].id] = "set"
         /\ Cancelled <=> Asked(sent[taken].id, read)
         /\ heard \in Nat /\ looked \in Nat /\ heard <= read /\ looked <= read
<1>1. /\ Len(sent) \in Nat /\ read \in Nat /\ taken \in Nat
      /\ read <= Len(sent) /\ taken <= read
      /\ heard \in Nat /\ looked \in Nat /\ heard <= read /\ looked <= read
      /\ \A i \in 1 .. Len(sent) : sent[i] \in Message
  BY SentTyped DEF Threads
<1>2. taken \in 1 .. Len(sent) /\ sent[taken].kind \in Tool
  BY DEF Threads, CallTaken
<1>3. /\ sent[taken].kind \in Request /\ sent[taken].kind # "cancel"
      /\ sent[taken].id \in Id
  BY <1>1, <1>2, Messages DEF Tool
<1>4. Cancelled <=> flags[sent[taken].id] = "set"
  BY DEF Cancelled, Key
<1>5. NotDone(sent[taken].id)
  <2> SUFFICES ASSUME NEW i \in 1 .. taken, sent[i].kind \in Request,
                      sent[i].id = sent[taken].id
               PROVE  i = taken
    BY DEF NotDone
  <2>1. i \in Requests /\ taken \in Requests
    BY <1>1, <1>2, <1>3 DEF Requests
  <2> QED
    BY <2>1 DEF Threads, Unique
<1>6. Cancelled <=> Asked(sent[taken].id, read)
  BY <1>3, <1>4, <1>5 DEF Threads, FlagsTrue
<1> QED
  BY <1>1, <1>2, <1>3, <1>4, <1>6 DEF Answerable

LEMMA FinishKeeps ==
  ASSUME Threads, Said, InCall, NEW w \in What, Finish(w),
         stored' = stored \/ (pc # "begin" /\ \E x \in Kept : Puts(x)),
         w = "cancelled" => Cancelled /\ stored' = stored,
         w = "ok" => pc # "begin" \/ Kind = "quick"
  PROVE  Threads' /\ Said'
<1> DEFINE id == sent[taken].id
<1>1. /\ pc' = "idle" /\ told' = FALSE /\ flags' = [flags EXCEPT ![id] = "none"]
      /\ heard' = heard /\ looked' = looked
      /\ UNCHANGED <<sent, open, read, draining, taken, initialized>>
      /\ answers' = Append(answers, [at |-> taken, what |-> w, heard |-> heard,
                                     looked |-> looked])
  BY DEF Finish, Answer, Released, Key
<1>2. ~InCall'
  BY <1>1 DEF InCall
<1>3. \A s \in stored' : s \in stored \/ (s.at = taken /\ s \in [at : Nat, what : Kept])
  BY Calling DEF Puts
<1>4. flags \in [Id -> {"none", "clear", "set"}] /\ id \in Id
  BY Calling DEF Threads, TypeOK
<1>5. /\ flags' \in [Id -> {"none", "clear", "set"}]
      /\ \A i \in Id : flags'[i] = IF i = id THEN "none" ELSE flags[i]
  BY <1>1, <1>4
<1>6. \A s \in stored : s.at = taken => pc # "begin" /\ s.what # "candidates"
  BY DEF Threads, StoredTrue
<1>7. w = "cancelled" => /\ Asked(id, read)
                         /\ [at |-> taken, what |-> "candidates"] \notin stored'
  <2>1. [at |-> taken, what |-> "candidates"] \notin stored
    <3>1. /\ [at |-> taken, what |-> "candidates"].at = taken
          /\ [at |-> taken, what |-> "candidates"].what = "candidates"
      OBVIOUS
    <3> QED
      BY <1>6, <3>1
  <2> QED
    BY <2>1, Calling
<1>8. sent[taken].kind \in Tool \ {"quick"} =>
        /\ w = "ok" => ~Asked(id, looked)
        /\ Asked(id, heard) => \A s \in stored' : s.at # taken
  <2> SUFFICES ASSUME sent[taken].kind # "quick"
               PROVE  /\ w = "ok" => ~Asked(id, looked)
                      /\ Asked(id, heard) => \A s \in stored' : s.at # taken
    OBVIOUS
  <2>1. pc # "begin" => ~Asked(id, looked)
    BY DEF Threads, LooksTrue
  <2>2. heard <= looked
    BY DEF Threads, LooksTrue
  <2>3. Asked(id, heard) => Asked(id, looked)
    <3> HIDE DEF id
    <3> QED
      BY <2>2, Calling, AskedMore
  <2>4. w = "ok" => pc # "begin"
    BY DEF Kind
  <2>5. pc = "begin" => \A s \in stored' : s.at # taken
    BY <1>6
  <2> HIDE DEF id
  <2> QED
    BY <2>1, <2>3, <2>4, <2>5
<1>9. Said' /\ answers' \in Seq([at : Nat, what : What, heard : Nat, looked : Nat])
  <2>1. taken' = taken /\ sent' = sent /\ read' = read
    BY <1>1
  <2>2. \A s \in stored' : s \in stored \/ s.at = taken
    BY <1>3
  <2> QED
    BY <1>1, <1>2, <1>7, <1>8, <2>1, <2>2, Calling, OneMoreAnswer
<1> HIDE DEF id
<1>10. TypeOK'
  <2>1. stored' \subseteq [at : Nat, what : Kept]
    BY <1>3 DEF Threads, TypeOK, Kept
  <2> QED
    BY <1>1, <1>5, <1>9, <2>1 DEF Threads, TypeOK, Kept
<1>11. Unique' /\ CallTaken' /\ ToldTrue'
  BY <1>1, <1>2 DEF Threads, Unique, Requests, CallTaken, ToldTrue
<1>12. FlagsTrue'
  <2>1. \A i : Asked(i, read)' <=> Asked(i, read)
    BY <1>1 DEF Asked
  <2>2. ASSUME NEW i, i = id PROVE ~NotDone(i)'
    <3>1. taken \in 1 .. taken /\ sent[taken].kind \in Request
      BY Calling
    <3> QED
      BY <1>1, <1>2, <2>2, <3>1 DEF NotDone, id
  <2>3. \A i : NotDone(i)' => NotDone(i)
    BY <1>1, <1>2 DEF NotDone
  <2>4. ASSUME NEW i \in Id
        PROVE  /\ flags'[i] = "set" => Asked(i, read)
               /\ flags'[i] # "clear"
               /\ Asked(i, read) /\ NotDone(i)' => flags'[i] = "set"
    <3>1. CASE i = id
      <4>1. flags'[i] = "none" /\ ~NotDone(i)'
        BY <1>5, <2>2, <3>1
      <4> QED
        BY <4>1
    <3>2. CASE i # id
      <4>1. flags'[i] = flags[i]
        BY <1>5, <3>2
      <4>2. /\ flags[i] = "set" => Asked(i, read)
            /\ flags[i] = "clear" => sent[taken].id = i
            /\ Asked(i, read) /\ NotDone(i) => flags[i] = "set"
        BY DEF Threads, FlagsTrue
      <4> QED
        BY <2>3, <3>2, <4>1, <4>2 DEF id
    <3> QED
      BY <3>1, <3>2
  <2> QED
    BY <2>1, <2>4 DEF FlagsTrue
<1>13. LooksTrue'
  BY <1>1, <1>2 DEF Threads, LooksTrue
<1>14. StoredTrue'
  BY <1>1, <1>2, <1>3, Calling DEF Threads, StoredTrue
<1> QED
  BY <1>9, <1>10, <1>11, <1>12, <1>13, <1>14 DEF Threads

Inside == {"analysing", "reading", "prepared", "engine", "made", "delivering", "first",
           "between", "last"}

LEMMA GoesKeeps ==
  ASSUME Threads, Said, InCall, NEW to \in Inside, Goes(to),
         told' \in BOOLEAN, told' => Cancelled,
         stored' = stored \/ (pc # "begin" /\ (Puts("analysis") \/ Puts("variant"))),
         \/ looked' = looked /\ pc # "begin"
         \/ looked' = read /\ ~Cancelled
  PROVE  Threads' /\ Said'
<1>1. /\ pc' = to
      /\ UNCHANGED <<sent, open, read, draining, taken, initialized, flags, answers, heard>>
  BY DEF Goes
<1>2. InCall' /\ pc' # "begin"
  BY <1>1 DEF InCall, Inside
<1>3. \A s \in stored' : \/ s \in stored
                         \/ /\ s.at = taken /\ s.what # "candidates"
                            /\ s \in [at : Nat, what : Kept]
  BY Calling DEF Puts, Kept
<1>4. TypeOK'
  <2>1. stored' \subseteq [at : Nat, what : Kept]
    BY <1>3 DEF Threads, TypeOK, Kept
  <2>2. looked' \in 0 .. read'
    BY <1>1, Calling
  <2>3. pc' \in {"idle", "begin", "analysing", "reading", "prepared", "engine", "made",
                 "delivering", "first", "between", "last", "ended"}
    BY <1>1 DEF Inside
  <2> QED
    BY <1>1, <2>1, <2>2, <2>3 DEF Threads, TypeOK, Kept
<1>5. Unique' /\ CallTaken'
  BY <1>1, <1>2 DEF Threads, Unique, Requests, CallTaken
<1>6. ToldTrue'
  BY <1>1, <1>2 DEF ToldTrue, Cancelled
<1>7. FlagsTrue'
  BY <1>1, <1>2 DEF Threads, FlagsTrue, Asked, NotDone
<1>8. LooksTrue'
  <2>1. heard' <= looked'
    BY <1>1, Calling DEF Threads, LooksTrue
  <2>2. ~Asked(sent[taken].id, looked')
    BY Calling DEF Threads, LooksTrue
  <2> QED
    BY <1>1, <2>1, <2>2 DEF LooksTrue, Asked
<1>9. StoredTrue'
  BY <1>1, <1>2, <1>3, Calling DEF Threads, StoredTrue
<1>10. Answered' = Answered
  BY <1>1 DEF Answered
<1>11. AnswersTrue' /\ OnlyIfAsked' /\ OneAnswerEach'
  BY <1>1, <1>2, <1>10 DEF Said, AnswersTrue, OnlyIfAsked, OneAnswerEach, Asked
<1>12. \A k \in 1 .. Len(answers) : answers[k].at # taken
  BY DEF Said, OneAnswerEach, Answered
<1>13. Honoured'
  <2> SUFFICES ASSUME NEW k \in 1 .. Len(answers),
                      sent[answers[k].at].kind \in Tool \ {"quick"}
               PROVE  /\ answers[k].what = "ok" => ~Asked(sent[answers[k].at].id, answers[k].looked)
                      /\ Asked(sent[answers[k].at].id, answers[k].heard) =>
                           \A s \in stored' : s.at # answers[k].at
    BY <1>1 DEF Honoured, Asked
  <2>1. \A s \in stored' : s \in stored \/ s.at # answers[k].at
    BY <1>3, <1>12
  <2> QED
    BY <2>1 DEF Said, Honoured
<1>14. NothingHalfGenerated'
  <2> SUFFICES ASSUME NEW k \in 1 .. Len(answers), answers[k].what = "cancelled"
               PROVE  [at |-> answers[k].at, what |-> "candidates"] \notin stored'
    BY <1>1 DEF NothingHalfGenerated
  <2>1. [at |-> answers[k].at, what |-> "candidates"].what = "candidates"
    OBVIOUS
  <2>2. [at |-> answers[k].at, what |-> "candidates"] \notin stored
    BY DEF Said, NothingHalfGenerated
  <2> QED
    BY <1>3, <2>1, <2>2
<1> QED
  BY <1>4, <1>5, <1>6, <1>7, <1>8, <1>9, <1>11, <1>13, <1>14 DEF Threads, Said

-----------------------------------------------------------------------------
(* Every step.                                                             *)

LEMMA BetweenKeeps ==
  ASSUME Threads, Said,
         TakeGarbled \/ TakePlain \/ TakeInitialize \/ TakeTooEarly \/ TakeCancel \/ TakeCall
  PROVE  Threads' /\ Said'
<1>1. CASE TakeGarbled
  <2>1. /\ Take /\ AtOnce("error") /\ initialized' = initialized
        /\ sent[taken'].kind = "garbled"
    BY <1>1 DEF TakeGarbled, Takes
  <2> QED
    BY <2>1, AtOnceKeeps DEF Answerable, Threads, TypeOK
<1>2. CASE TakePlain
  <2>1. /\ Take /\ (AtOnce("ok") \/ AtOnce("error")) /\ initialized' = initialized
        /\ sent[taken'].kind = "plain"
    BY <1>2 DEF TakePlain, Takes
  <2>2. sent[taken'].kind \notin Tool /\ Answerable(sent[taken'])
    BY <2>1 DEF Tool, Answerable
  <2>3. initialized' \in BOOLEAN
    BY <2>1 DEF Threads, TypeOK
  <2> QED
    BY <2>1, <2>2, <2>3, AtOnceKeeps
<1>3. CASE TakeInitialize
  <2>1. Take /\ AtOnce("ok") /\ initialized' = TRUE /\ sent[taken'].kind = "initialize"
    BY <1>3 DEF TakeInitialize, Takes
  <2>2. sent[taken'].kind \notin Tool /\ Answerable(sent[taken'])
    BY <2>1 DEF Tool, Answerable
  <2> QED
    BY <2>1, <2>2, AtOnceKeeps
<1>4. CASE TakeTooEarly
  <2>1. Take /\ AtOnce("error") /\ initialized' = initialized /\ sent[taken'].kind \in Tool
    BY <1>4 DEF TakeTooEarly, Takes
  <2>2. Answerable(sent[taken'])
    BY <2>1 DEF Tool, Answerable
  <2>3. initialized' \in BOOLEAN
    BY <2>1 DEF Threads, TypeOK
  <2> QED
    BY <2>1, <2>2, <2>3, AtOnceKeeps
<1> QED
  BY <1>1, <1>2, <1>3, <1>4, TakeCancelKeeps, TakeCallKeeps

LEMMA LookKeeps ==
  ASSUME Threads, Said, Look
  PROVE  Threads' /\ Said'
<1>1. PICK c \in Checkpoint :
        /\ pc = c[1] /\ Kind = c[2]
        /\ IF Cancelled THEN Finish("cancelled")
           ELSE Goes(c[3]) /\ looked' = read /\ UNCHANGED told
        /\ UNCHANGED stored
  BY DEF Look
<1>2. InCall /\ c[3] \in Inside
  BY <1>1 DEF Checkpoint, InCall, Inside
<1>3. CASE Cancelled
  BY <1>1, <1>2, <1>3, FinishKeeps DEF What
<1>4. CASE ~Cancelled
  <2>1. told' \in BOOLEAN /\ (told' => Cancelled)
    BY <1>1, <1>4 DEF Threads, TypeOK, ToldTrue
  <2> QED
    BY <1>1, <1>2, <1>4, <2>1, GoesKeeps
<1> QED
  BY <1>3, <1>4

LEMMA FinalKeeps ==
  ASSUME Threads, Said,
         Fails \/ Quick \/ Analyze \/ EngineStops \/ Deliver \/ LastVariant
  PROVE  Threads' /\ Said'
<1>1. {"ok", "error", "cancelled"} \subseteq What
  BY DEF What
<1>2. CASE Fails
  BY <1>1, <1>2, FinishKeeps DEF Fails
<1>3. CASE Quick
  BY <1>1, <1>3, FinishKeeps DEF Quick, InCall
<1>4. CASE Analyze
  <2>1. pc = "analysing" /\ Puts("analysis") /\ Finish("ok") /\ "analysis" \in Kept
    BY <1>4 DEF Analyze, Kept
  <2> QED
    BY <1>1, <2>1, FinishKeeps DEF InCall
<1>5. CASE EngineStops
  <2>1. pc = "engine" /\ told /\ Finish("cancelled") /\ stored' = stored
    BY <1>5 DEF EngineStops
  <2>2. Cancelled
    BY <2>1 DEF Threads, ToldTrue
  <2> QED
    BY <1>1, <2>1, <2>2, FinishKeeps DEF InCall
<1>6. CASE Deliver
  <2>1. pc = "delivering" /\ Puts("candidates") /\ Finish("ok") /\ "candidates" \in Kept
    BY <1>6 DEF Deliver, Kept
  <2> QED
    BY <1>1, <2>1, FinishKeeps DEF InCall
<1>7. CASE LastVariant
  <2>1. pc = "last" /\ Puts("variants") /\ Finish("ok") /\ "variants" \in Kept
    BY <1>7 DEF LastVariant, Kept
  <2> QED
    BY <1>1, <2>1, FinishKeeps DEF InCall
<1> QED
  BY <1>2, <1>3, <1>4, <1>5, <1>6, <1>7

LEMMA InsideKeeps ==
  ASSUME Threads, Said, Prepare \/ StartEngine \/ EngineDone \/ FirstVariant \/ Watch
  PROVE  Threads' /\ Said'
<1>1. told \in BOOLEAN /\ (told => Cancelled)
  BY DEF Threads, TypeOK, ToldTrue
<1>2. {"prepared", "engine", "made", "between"} \subseteq Inside
  BY DEF Inside
<1>3. CASE Prepare
  <2>1. /\ pc = "reading" /\ (Puts("analysis") \/ stored' = stored) /\ Goes("prepared")
        /\ told' = told /\ looked' = looked
    BY <1>3 DEF Prepare
  <2> QED
    BY <1>1, <1>2, <2>1, GoesKeeps DEF InCall
<1>4. CASE StartEngine
  <2>1. /\ pc = "prepared" /\ told' = Cancelled /\ Goes("engine")
        /\ stored' = stored /\ looked' = looked
    BY <1>4 DEF StartEngine
  <2>2. told' \in BOOLEAN /\ (told' => Cancelled)
    BY <2>1 DEF Cancelled
  <2> QED
    BY <1>2, <2>1, <2>2, GoesKeeps DEF InCall
<1>5. CASE EngineDone
  <2>1. /\ pc = "engine" /\ Goes("made")
        /\ stored' = stored /\ told' = told /\ looked' = looked
    BY <1>5 DEF EngineDone
  <2> QED
    BY <1>1, <1>2, <2>1, GoesKeeps DEF InCall
<1>6. CASE FirstVariant
  <2>1. /\ pc = "first" /\ Puts("variant") /\ Goes("between")
        /\ told' = told /\ looked' = looked
    BY <1>6 DEF FirstVariant
  <2> QED
    BY <1>1, <1>2, <2>1, GoesKeeps DEF InCall
<1>7. CASE Watch
  <2>1. /\ pc = "engine" /\ Cancelled /\ told' = TRUE /\ Goes("engine")
        /\ stored' = stored /\ looked' = looked
    BY <1>7 DEF Watch
  <2> QED
    BY <1>2, <2>1, GoesKeeps DEF InCall
<1> QED
  BY <1>3, <1>4, <1>5, <1>6, <1>7

LEMMA NextKeeps == Threads /\ Said /\ [Next]_vars => Threads' /\ Said'
<1> SUFFICES ASSUME Threads, Said, [Next]_vars PROVE Threads' /\ Said'
  OBVIOUS
<1>1. CASE Next
  <2>1. CASE Client
    BY <2>1, SendKeeps, SilentKeeps DEF Client
  <2>2. CASE Reader
    BY <2>2, ReadKeeps, SilentKeeps DEF Reader
  <2>3. CASE Main
    BY <2>3, BetweenKeeps, SilentKeeps, LookKeeps, FinalKeeps, InsideKeeps DEF Main
  <2>4. CASE Watch
    BY <2>4, InsideKeeps
  <2> QED
    BY <1>1, <2>1, <2>2, <2>3, <2>4 DEF Next
<1>2. CASE UNCHANGED vars
  <2>1. /\ UNCHANGED <<sent, open, read, draining, taken, initialized, flags, pc, told,
                       stored, answers, heard, looked>>
    BY <1>2 DEF vars
  <2>2. TypeOK'
    BY <2>1 DEF Threads, TypeOK
  <2>3. Unique' /\ CallTaken' /\ ToldTrue' /\ StoredTrue'
    BY <2>1 DEF Threads, Unique, Requests, CallTaken, ToldTrue, StoredTrue, InCall, Cancelled
  <2>4. FlagsTrue' /\ LooksTrue'
    BY <2>1 DEF Threads, FlagsTrue, LooksTrue, InCall, Asked, NotDone
  <2>5. AnswersTrue' /\ OneAnswerEach' /\ OnlyIfAsked'
    BY <2>1 DEF Said, AnswersTrue, OneAnswerEach, Answered, InCall, OnlyIfAsked, Asked
  <2>6. Honoured' /\ NothingHalfGenerated'
    BY <2>1 DEF Said, Honoured, NothingHalfGenerated, Asked
  <2> QED
    BY <2>2, <2>3, <2>4, <2>5, <2>6 DEF Threads, Said
<1> QED
  BY <1>1, <1>2

\* The inductive invariant.
THEOREM ServerInvariant == Spec => [](Threads /\ Said)
<1>1. Init => Threads /\ Said
  BY InitThreads, InitSaid
<1> QED
  BY <1>1, NextKeeps, PTL DEF Spec

\* Every variable keeps its shape.
THEOREM ServerTypeCorrect == Spec => []TypeOK
<1>1. Threads => TypeOK
  BY DEF Threads
<1> QED
  BY <1>1, ServerInvariant, PTL

\* Every request gets exactly one answer, in the order of arrival, and a
\* notification none.
THEOREM EveryRequestOnce == Spec => []OneAnswerEach
<1>1. Said => OneAnswerEach
  BY DEF Said
<1> QED
  BY <1>1, ServerInvariant, PTL

\* CANCELLED is the answer only to a request whose cancellation has been read.
THEOREM CancelledOnlyIfAsked == Spec => []OnlyIfAsked
<1>1. Said => OnlyIfAsked
  BY DEF Said
<1> QED
  BY <1>1, ServerInvariant, PTL

\* A cancellation is honoured even if it overtakes its request.
THEOREM CancellationHonoured == Spec => []Honoured
<1>1. Said => Honoured
  BY DEF Said
<1> QED
  BY <1>1, ServerInvariant, PTL

\* The registry of flags does not grow with the calls.
THEOREM RegistryStaysClean == Spec => []RegistryClean
<1>1. ASSUME Threads PROVE RegistryClean
  <2> SUFFICES ASSUME NEW id \in Id, flags[id] # "none"
               PROVE  (InCall /\ sent[taken].id = id) \/ Asked(id, read)
    BY DEF RegistryClean
  <2>1. flags[id] = "set" \/ flags[id] = "clear"
    BY <1>1 DEF Threads, TypeOK
  <2> QED
    BY <1>1, <2>1 DEF Threads, FlagsTrue
<1> QED
  BY <1>1, ServerInvariant, PTL

\* A generation that ends cancelled has stored none of its candidates.
THEOREM CancelledStoresNoCandidates == Spec => []NothingHalfGenerated
<1>1. Said => NothingHalfGenerated
  BY DEF Said
<1> QED
  BY <1>1, ServerInvariant, PTL
=============================================================================
