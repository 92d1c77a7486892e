------------------------ MODULE StudentProfileProofs ------------------------
(***************************************************************************)
(* Theorems about AnalysisDelivery and StudentProfile together, for any    *)
(* runs, keys, prefixes, requests, models and numbers of failures.  What   *)
(* the properties need of the past is kept in the histories of the objects *)
(* and these only grow (HistoryGrows); Delivered says how far a run that   *)
(* stands somewhere has come, Reading what a request has read, Embedded    *)
(* what it compares.                                                       *)
(***************************************************************************)
EXTENDS StudentProfile, TLAPS

USE DeliveryAssumptions, ProfileAssumptions

LEMMA CountsAreNatural == \A n \in QuestionCounts \cup {0} : n \in Nat
<1>1. \A n \in QuestionCounts : n \in Nat
  BY DeliveryAssumptions
<1> QED BY <1>1

\* A profile request changes nothing of the delivery but the count of faults.
LEMMA RequestsOnlyRead ==
    ASSUME NEW p \in Request, RequestStep(p)
    PROVE  /\ UNCHANGED <<pc, questions, stored, errors, mail, objects, dated, rows,
                          events, tries, attached, sent>>
           /\ faults' = faults \/ faults' = faults + 1
BY DEF RequestStep, Query, LoadReport, Pair, Embed, SaveEmbedding, Analyse, Publish,
       Fault, deliveryVars, runVars, mailVars

-----------------------------------------------------------------------------
(* Types.                                                                  *)

LEMMA PutType ==
    ASSUME DeliveryTypeOK, NEW kind \in Kinds, NEW r \in Run, Put(kind, r)
    PROVE  objects' \in [Kinds \X Prefix -> Seq(Run)]
<1>1. objects \in [Kinds \X Prefix -> Seq(Run)]
  BY DEF DeliveryTypeOK
<1>2. \A o \in Kinds \X Prefix : Append(objects[o], r) \in Seq(Run)
  BY <1>1
<1>3. objects' = [o \in Kinds \X Prefix |->
                    IF o = <<kind, Place(r)>> THEN Append(objects[o], r) ELSE objects[o]]
  BY <1>1 DEF Put
<1> QED BY <1>1, <1>2, <1>3

LEMMA SetAdded ==
    ASSUME NEW S, NEW f \in [Run -> SUBSET S], NEW r \in Run, NEW x \in S
    PROVE  [f EXCEPT ![r] = @ \cup {x}] \in [Run -> SUBSET S]
<1>1. f[r] \cup {x} \in SUBSET S
  OBVIOUS
<1> QED BY <1>1

LEMMA StoreType ==
    ASSUME DeliveryTypeOK, NEW kind \in Kinds, NEW r \in Run,
           NEW next \in Steps, NEW otherwise \in Steps,
           Store(kind, r, next, otherwise)
    PROVE  DeliveryTypeOK'
<1>1. objects' \in [Kinds \X Prefix -> Seq(Run)]
  BY PutType DEF Store, PutRaises, DeliveryTypeOK
<1>2. faults' \in Nat
  BY DEF Store, PutRaises, Fault, DeliveryTypeOK
<1>3. stored' \in [Run -> SUBSET Kinds] /\ errors' \in [Run -> SUBSET (Kinds \cup {"row"})]
  <2>1. /\ stored \in [Run -> SUBSET Kinds]
        /\ errors \in [Run -> SUBSET (Kinds \cup {"row"})]
    BY DEF DeliveryTypeOK
  <2>2. /\ stored' = stored \/ stored' = [stored EXCEPT ![r] = @ \cup {kind}]
        /\ errors' = errors \/ errors' = [errors EXCEPT ![r] = @ \cup {kind}]
    BY DEF Store
  <2>3. stored' \in [Run -> SUBSET Kinds]
    BY <2>1, <2>2, SetAdded
  <2> DEFINE E == Kinds \cup {"row"}
  <2>4. kind \in E /\ errors \in [Run -> SUBSET E]
    BY <2>1
  <2> HIDE DEF E
  <2>5. errors' \in [Run -> SUBSET E]
    BY <2>2, <2>4, SetAdded
  <2> QED BY <2>3, <2>5 DEF E
<1>4. pc' \in [Run -> Steps]
  BY DEF Store, Goto, DeliveryTypeOK
<1> QED BY <1>1, <1>2, <1>3, <1>4 DEF Store, mailVars, DeliveryTypeOK

LEMMA NextSteps ==
    ASSUME NEW r \in Run
    PROVE  AfterAnalysis(r) \in Steps
BY DEF AfterAnalysis, Steps

LEMMA RunTypeStep ==
    ASSUME DeliveryTypeOK, NEW r \in Run, RunStep(r)
    PROVE  DeliveryTypeOK'
<1>1. CASE Respond(r)
  <2>1. pc' \in [Run -> Steps]
    BY <1>1 DEF Respond, Goto, Steps, DeliveryTypeOK
  <2>2. questions' \in [Run -> QuestionCounts \cup {0}]
    BY <1>1 DEF Respond, DeliveryTypeOK
  <2>3. dated' \in Seq(Run)
    BY <1>1 DEF Respond, DeliveryTypeOK
  <2> QED BY <1>1, <2>1, <2>2, <2>3 DEF Respond, mailVars, DeliveryTypeOK
<1>2. CASE StorePdf(r) \/ StoreMarkdown(r) \/ StoreJson(r)
  BY <1>2, NextSteps, StoreType DEF StorePdf, StoreMarkdown, StoreJson, Kinds, Steps
<1>3. CASE WriteRow(r)
  <2>1. pc' \in [Run -> Steps]
    BY <1>3 DEF WriteRow, Goto, Steps, DeliveryTypeOK
  <2>2. rows' \subseteq Run /\ errors' \in [Run -> SUBSET (Kinds \cup {"row"})]
    <3>1. rows \subseteq Run /\ errors \in [Run -> SUBSET (Kinds \cup {"row"})]
      BY DEF DeliveryTypeOK
    <3>2. /\ rows' = rows \/ rows' = rows \cup {r}
          /\ errors' = errors \/ errors' = [errors EXCEPT ![r] = @ \cup {"row"}]
      BY <1>3 DEF WriteRow
    <3> QED BY <3>1, <3>2, SetAdded
  <2>3. faults' \in Nat
    BY <1>3 DEF WriteRow, Fault, DeliveryTypeOK
  <2> QED BY <1>3, <2>1, <2>2, <2>3 DEF WriteRow, mailVars, DeliveryTypeOK
<1>4. CASE RequestMail(r)
  <2>1. pc' \in [Run -> Steps]
    BY <1>4 DEF RequestMail, Goto, Steps, DeliveryTypeOK
  <2>2. mail' \in [Run -> {"not_requested", "queued", "failed"}] /\ events' \subseteq Run
    BY <1>4 DEF RequestMail, MailStatus, DeliveryTypeOK
  <2>3. faults' \in Nat
    BY <1>4 DEF RequestMail, Fault, DeliveryTypeOK
  <2> QED BY <1>4, <2>1, <2>2, <2>3 DEF RequestMail, DeliveryTypeOK
<1> QED BY <1>1, <1>2, <1>3, <1>4 DEF RunStep

\* What a run that stands somewhere has done: its objects are where it says.
Delivered(r) ==
    /\ pc[r] \in {"pdf", "markdown", "json", "row"} => Place(r) \in Prefix
    /\ stored[r] # {} => Place(r) \in Prefix
    /\ \A kind \in stored[r] : r \in Elements(History(kind, r))
    /\ pc[r] = "row" \/ r \in rows => "json" \in stored[r]
    /\ pc[r] = "new" => stored[r] = {}
    /\ pc[r] = "new" <=> r \notin Elements(dated)
    /\ r \in events => "pdf" \in stored[r]
    /\ attached[r] # {} => r \in events

AllDelivered == \A r \in Run : Delivered(r)

\* An event is fetched for a run whose prefix has a PDF.
LEMMA EventHasPdf ==
    ASSUME DeliveryTypeOK, AllDelivered, NEW r \in events
    PROVE  /\ r \in Run /\ Place(r) \in Prefix
           /\ History("pdf", r) \in Seq(Run) /\ r \in Elements(History("pdf", r))
           /\ Len(History("pdf", r)) \in DOMAIN History("pdf", r)
           /\ Content("pdf", r) \in Run
<1>1. r \in Run /\ Delivered(r)
  BY DEF DeliveryTypeOK, AllDelivered
<1>2. Place(r) \in Prefix /\ r \in Elements(History("pdf", r))
  BY <1>1 DEF Delivered
<1>3. History("pdf", r) \in Seq(Run)
  BY <1>2 DEF History, Kinds, DeliveryTypeOK
<1>4. Len(History("pdf", r)) \in DOMAIN History("pdf", r)
  BY <1>2, <1>3 DEF Elements
<1> QED BY <1>1, <1>2, <1>3, <1>4 DEF Content

LEMMA WorkerTypeStep ==
    ASSUME DeliveryTypeOK, AllDelivered, NEW r \in Run, WorkerStep(r)
    PROVE  DeliveryTypeOK'
<1>1. faults' \in Nat
  BY DEF WorkerStep, FetchPdf, SendMail, Fault, DeliveryTypeOK
<1>2. tries' \in [Run -> Nat]
  <2>1. tries' = tries \/ tries' = [tries EXCEPT ![r] = @ + 1]
    BY DEF WorkerStep, FetchPdf, SendMail, EndDelivery
  <2>2. tries \in [Run -> Nat]
    BY DEF DeliveryTypeOK
  <2> QED BY <2>1, <2>2
<1>3. attached' \in [Run -> SUBSET Run]
  <2>1. \/ attached' = attached
        \/ attached' = [attached EXCEPT ![r] = {}]
        \/ r \in events /\ attached' = [attached EXCEPT ![r] = {Content("pdf", r)}]
    BY DEF WorkerStep, FetchPdf, SendMail
  <2>2. r \in events => Content("pdf", r) \in Run
    BY EventHasPdf
  <2>3. attached \in [Run -> SUBSET Run]
    BY DEF DeliveryTypeOK
  <2> QED BY <2>1, <2>2, <2>3
<1>4. sent' \subseteq Run \X Run
  BY DEF WorkerStep, FetchPdf, SendMail, DeliveryTypeOK
<1> QED BY <1>1, <1>2, <1>3, <1>4 DEF WorkerStep, FetchPdf, SendMail, runVars,
           DeliveryTypeOK

LEMMA DeliveryTypeStep ==
    ASSUME DeliveryTypeOK, AllDelivered, [Next]_vars
    PROVE  DeliveryTypeOK'
<1>1. ASSUME NEW p \in Request, RequestStep(p) PROVE DeliveryTypeOK'
  <2>1. /\ UNCHANGED <<pc, questions, stored, errors, mail, objects, dated, rows,
                       events, tries, attached, sent>>
        /\ faults' = faults \/ faults' = faults + 1
    BY <1>1, RequestsOnlyRead
  <2>2. faults' \in Nat
    BY <2>1 DEF DeliveryTypeOK
  <2> QED BY <2>1, <2>2 DEF DeliveryTypeOK
<1>2. CASE UNCHANGED vars
  BY <1>2 DEF vars, deliveryVars, runVars, mailVars, DeliveryTypeOK
<1> QED BY <1>1, <1>2, RunTypeStep, WorkerTypeStep DEF Next, DeliveryNext

-----------------------------------------------------------------------------
(* The histories of the objects.                                           *)

\* A history stays or is extended by a run that is writing there.
Grows(before, after, kind, place) ==
    \/ after = before
    \/ \E w \in Run : /\ Place(w) = place /\ pc[w] = kind
                      /\ after = Append(before, w)

LEMMA HistoryGrows ==
    ASSUME DeliveryTypeOK, [Next]_vars, NEW kind \in Kinds, NEW place \in Prefix
    PROVE  Grows(objects[<<kind, place>>], objects'[<<kind, place>>], kind, place)
<1>1. ASSUME NEW k \in Kinds, NEW w \in Run, pc[w] = k, Put(k, w)
      PROVE  Grows(objects[<<kind, place>>], objects'[<<kind, place>>], kind, place)
  BY <1>1 DEF Put, Grows, DeliveryTypeOK
<1>2. CASE UNCHANGED objects
  BY <1>2 DEF Grows
<1>3. ASSUME NEW p \in Request, RequestStep(p) PROVE UNCHANGED objects
  BY <1>3, RequestsOnlyRead
<1>4. ASSUME NEW w \in Run, RunStep(w)
      PROVE  UNCHANGED objects \/ \E k \in Kinds : pc[w] = k /\ Put(k, w)
  BY <1>4 DEF RunStep, Respond, StorePdf, StoreMarkdown, StoreJson, Store, PutRaises,
              WriteRow, RequestMail, Kinds
<1>5. ASSUME NEW w \in Run, WorkerStep(w) PROVE UNCHANGED objects
  BY <1>5 DEF WorkerStep, FetchPdf, SendMail
<1>6. UNCHANGED vars => UNCHANGED objects
  BY DEF vars, deliveryVars
<1> QED BY <1>1, <1>2, <1>3, <1>4, <1>5, <1>6 DEF Next, DeliveryNext

\* What is in a history stays where it is.
LEMMA GrownKeeps ==
    ASSUME NEW before \in Seq(Run), NEW after, NEW kind, NEW place,
           Grows(before, after, kind, place)
    PROVE  /\ after \in Seq(Run)
           /\ Elements(before) \subseteq Elements(after)
           /\ \A i \in DOMAIN before : i \in DOMAIN after /\ after[i] = before[i]
<1>1. CASE after = before
  BY <1>1
<1>2. ASSUME NEW w \in Run, after = Append(before, w)
      PROVE  /\ after \in Seq(Run)
             /\ \A i \in DOMAIN before : i \in DOMAIN after /\ after[i] = before[i]
  BY <1>2
<1> QED BY <1>1, <1>2 DEF Grows, Elements

\* What a run has written stays in the histories.
LEMMA StoredStays ==
    ASSUME DeliveryTypeOK, [Next]_vars, NEW r \in Run, Delivered(r),
           NEW kind \in stored[r]
    PROVE  Place(r) \in Prefix /\ r \in Elements(History(kind, r)')
<1>1. kind \in Kinds /\ Place(r) \in Prefix /\ r \in Elements(History(kind, r))
  BY DEF DeliveryTypeOK, Delivered
<1>2. objects[<<kind, Place(r)>>] \in Seq(Run)
  BY <1>1 DEF DeliveryTypeOK
<1>3. Grows(objects[<<kind, Place(r)>>], objects'[<<kind, Place(r)>>], kind, Place(r))
  BY <1>1, HistoryGrows
<1> QED BY <1>1, <1>2, <1>3, GrownKeeps DEF History

\* A write that is told of has reached the history.
LEMMA PutIsThere ==
    ASSUME DeliveryTypeOK, NEW r \in Run, NEW kind \in Kinds, Place(r) \in Prefix,
           Put(kind, r)
    PROVE  r \in Elements(History(kind, r)')
<1> DEFINE h == objects[<<kind, Place(r)>>]
<1>1. h \in Seq(Run)
  BY DEF DeliveryTypeOK
<1>2. History(kind, r)' = Append(h, r)
  BY DEF Put, History, DeliveryTypeOK
<1>3. Len(h) + 1 \in DOMAIN Append(h, r) /\ Append(h, r)[Len(h) + 1] = r
  BY <1>1
<1> QED BY <1>2, <1>3 DEF Elements

LEMMA DeliveredStep ==
    ASSUME DeliveryTypeOK, AllDelivered, [Next]_vars
    PROVE  AllDelivered'
<1> SUFFICES ASSUME NEW r \in Run PROVE Delivered(r)'
  BY DEF AllDelivered
<1>1. Delivered(r)
  BY DEF AllDelivered
<1>2. \A kind \in stored[r] : Place(r) \in Prefix /\ r \in Elements(History(kind, r)')
  BY <1>1, StoredStays
\* Steps that leave the run itself alone.
<1>3. ASSUME /\ pc'[r] = pc[r] /\ stored'[r] = stored[r]
             /\ r \in rows' <=> r \in rows
             /\ r \in Elements(dated') <=> r \in Elements(dated)
             /\ r \in events' <=> r \in events
             /\ attached'[r] # {} => r \in events
      PROVE  Delivered(r)'
  BY <1>1, <1>2, <1>3 DEF Delivered, Place
<1>4. ASSUME NEW p \in Request, RequestStep(p) PROVE Delivered(r)'
  BY <1>1, <1>3, <1>4, RequestsOnlyRead DEF Delivered
<1>5. CASE UNCHANGED vars
  BY <1>1, <1>3, <1>5 DEF vars, deliveryVars, runVars, mailVars, Delivered
<1>6. ASSUME NEW w \in Run, WorkerStep(w) PROVE Delivered(r)'
  <2>1. attached'[r] # {} => r \in events
    BY <1>1, <1>6 DEF WorkerStep, FetchPdf, SendMail, Delivered, DeliveryTypeOK
  <2> QED BY <1>3, <1>6, <2>1 DEF WorkerStep, FetchPdf, SendMail, runVars
<1>7. ASSUME NEW w \in Run, Respond(w) PROVE Delivered(r)'
  <2>1. Elements(dated') = Elements(dated) \cup {w}
    <3>1. dated \in Seq(Run) /\ dated' = Append(dated, w)
      BY <1>7 DEF Respond, DeliveryTypeOK
    <3> QED BY <3>1 DEF Elements
  <2>2. CASE w = r
    <3>1. /\ pc[r] = "new" /\ pc'[r] \in {"pdf", "mail"}
          /\ pc'[r] = "pdf" => Place(r) # Nowhere
      BY <1>7, <2>2 DEF Respond, Goto, DeliveryTypeOK
    <3>2. Place(r) # Nowhere => Place(r) \in Prefix
      BY DEF Place
    <3> QED BY <1>1, <1>2, <1>7, <2>1, <2>2, <3>1, <3>2
            DEF Respond, mailVars, Delivered, Place
  <2>3. CASE w # r
    <3>1. pc'[r] = pc[r]
      BY <1>7, <2>3 DEF Respond, Goto, DeliveryTypeOK
    <3> QED BY <1>1, <1>3, <1>7, <2>1, <2>3, <3>1 DEF Respond, mailVars, Delivered
  <2> QED BY <2>2, <2>3
<1>8. ASSUME NEW w \in Run, NEW kind \in Kinds, NEW next, NEW otherwise,
             Store(kind, w, next, otherwise),
             {next, otherwise} \subseteq {"markdown", "json", "row", "mail"},
             next = "row" => kind = "json", otherwise # "row"
      PROVE  Delivered(r)'
  <2>1. CASE w # r
    <3>1. pc'[r] = pc[r] /\ stored'[r] = stored[r]
      BY <1>8, <2>1 DEF Store, Goto, DeliveryTypeOK
    <3> QED BY <1>1, <1>3, <1>8, <3>1 DEF Store, mailVars, Delivered
  <2>2. CASE w = r
    <3>1. Place(r) \in Prefix
      BY <1>1, <1>8, <2>2 DEF Store, Delivered, Kinds
    <3>2. CASE Put(kind, r) /\ stored' = [stored EXCEPT ![r] = @ \cup {kind}]
               /\ Goto(r, next)
      <4>1. stored'[r] = stored[r] \cup {kind} /\ pc'[r] = next /\ pc[r] = kind
        BY <1>8, <2>2, <3>2 DEF Store, Goto, DeliveryTypeOK
      <4>2. r \in Elements(History(kind, r)')
        BY <3>1, <3>2, PutIsThere
      <4> QED BY <1>1, <1>2, <1>8, <2>2, <3>1, <4>1, <4>2
              DEF Store, mailVars, Delivered, Place, Kinds
    <3>3. CASE Goto(r, otherwise) /\ UNCHANGED stored
      <4>1. pc'[r] = otherwise /\ pc[r] = kind
        BY <1>8, <2>2, <3>3 DEF Store, Goto, DeliveryTypeOK
      <4> QED BY <1>1, <1>2, <1>8, <2>2, <3>1, <3>3, <4>1
              DEF Store, mailVars, Delivered, Place, Kinds
    <3> QED BY <1>8, <2>2, <3>2, <3>3 DEF Store
  <2> QED BY <2>1, <2>2
<1>9. ASSUME NEW w \in Run, WriteRow(w) PROVE Delivered(r)'
  <2>1. /\ UNCHANGED <<stored, dated, events, attached>>
        /\ pc[w] = "row" /\ pc' = [pc EXCEPT ![w] = "mail"]
        /\ rows' \in {rows, rows \cup {w}}
    BY <1>9 DEF WriteRow, Goto, mailVars
  <2>2. CASE w = r
    <3>1. pc'[r] = "mail" /\ pc[r] = "row"
      BY <2>1, <2>2 DEF DeliveryTypeOK
    <3> QED BY <1>1, <1>2, <2>1, <2>2, <3>1 DEF Delivered, Place
  <2>3. CASE w # r
    <3>1. pc'[r] = pc[r]
      BY <2>1, <2>3 DEF DeliveryTypeOK
    <3> QED BY <1>1, <1>3, <2>1, <2>3, <3>1 DEF Delivered
  <2> QED BY <2>2, <2>3
<1>10. ASSUME NEW w \in Run, RequestMail(w) PROVE Delivered(r)'
  <2>1. /\ UNCHANGED <<stored, dated, rows, attached>>
        /\ pc[w] = "mail" /\ pc' = [pc EXCEPT ![w] = "done"]
        /\ events' = events \/ ("pdf" \in stored[w] /\ events' = events \cup {w})
    BY <1>10 DEF RequestMail, Goto
  <2>2. CASE w = r
    <3>1. pc'[r] = "done" /\ pc[r] = "mail"
      BY <2>1, <2>2 DEF DeliveryTypeOK
    <3> QED BY <1>1, <1>2, <2>1, <2>2, <3>1 DEF Delivered, Place
  <2>3. CASE w # r
    <3>1. pc'[r] = pc[r]
      BY <2>1, <2>3 DEF DeliveryTypeOK
    <3> QED BY <1>1, <1>3, <2>1, <2>3, <3>1 DEF Delivered
  <2> QED BY <2>2, <2>3
<1>11. ASSUME NEW w \in Run, StorePdf(w) \/ StoreMarkdown(w) \/ StoreJson(w)
       PROVE  Delivered(r)'
  <2>1. AfterAnalysis(w) \in {"json", "mail"}
    BY DEF AfterAnalysis
  <2>2. CASE StorePdf(w)
    BY <1>8, <2>1, <2>2 DEF StorePdf, Kinds
  <2>3. CASE StoreMarkdown(w)
    BY <1>8, <2>1, <2>3 DEF StoreMarkdown, Kinds
  <2>4. CASE StoreJson(w)
    BY <1>8, <2>4 DEF StoreJson, Kinds
  <2> QED BY <1>11, <2>2, <2>3, <2>4
<1> QED BY <1>4, <1>5, <1>6, <1>7, <1>9, <1>10, <1>11 DEF Next, DeliveryNext, RunStep

LEMMA InitDelivered == Init => DeliveryTypeOK /\ AllDelivered
BY DEF Init, DeliveryInit, DeliveryTypeOK, AllDelivered, Delivered, Kinds, Steps, Elements

-----------------------------------------------------------------------------
(* What a response says.                                                   *)

\* What a run with a recipient and no errors has done so far.
ToldSoFar(r) ==
    KeyOf[r] \in Mailed /\ errors[r] = {} =>
        /\ pc[r] # "markdown"
        /\ pc[r] \in {"json", "row", "mail", "done"} => "pdf" \in stored[r]
        /\ pc[r] \in {"mail", "done"} /\ questions[r] > 0 => r \in rows

AllTold == \A r \in Run : ToldSoFar(r)

LEMMA ToldStep ==
    ASSUME DeliveryTypeOK, AllTold, [Next]_vars
    PROVE  AllTold'
<1> SUFFICES ASSUME NEW r \in Run PROVE ToldSoFar(r)'
  BY DEF AllTold
<1>1. ToldSoFar(r)
  BY DEF AllTold
<1>2. ASSUME /\ pc'[r] = pc[r] /\ stored'[r] = stored[r] /\ errors'[r] = errors[r]
             /\ questions'[r] = questions[r] /\ (r \in rows => r \in rows')
      PROVE  ToldSoFar(r)'
  BY <1>1, <1>2 DEF ToldSoFar
<1>3. ASSUME NEW p \in Request, RequestStep(p) PROVE ToldSoFar(r)'
  BY <1>2, <1>3, RequestsOnlyRead
<1>4. CASE UNCHANGED vars
  BY <1>2, <1>4 DEF vars, deliveryVars, runVars, mailVars
<1>5. ASSUME NEW w \in Run, WorkerStep(w) PROVE ToldSoFar(r)'
  BY <1>2, <1>5 DEF WorkerStep, FetchPdf, SendMail, runVars
<1>6. ASSUME NEW w \in Run, RunStep(w), w # r PROVE ToldSoFar(r)'
  BY <1>2, <1>6 DEF RunStep, Respond, StorePdf, StoreMarkdown, StoreJson, Store, WriteRow,
                    RequestMail, Goto, DeliveryTypeOK
<1>7. CASE Respond(r)
  <2>1. KeyOf[r] \in Mailed => Place(r) # Nowhere
    BY DEF Place
  <2>2. pc'[r] = IF KeyOf[r] \in Mailed \cup Saved /\ Place(r) # Nowhere
                 THEN "pdf" ELSE "mail"
    BY <1>7 DEF Respond, Goto, DeliveryTypeOK
  <2> QED BY <2>1, <2>2 DEF ToldSoFar
<1>8. CASE StorePdf(r)
  <2>1. questions[r] \in Nat
    <3>1. questions[r] \in QuestionCounts \cup {0}
      BY DEF DeliveryTypeOK
    <3> QED BY <3>1, CountsAreNatural
  <2>2. CASE stored' = [stored EXCEPT ![r] = @ \cup {"pdf"}] /\ Goto(r, AfterAnalysis(r))
    <3>1. /\ "pdf" \in stored'[r] /\ questions' = questions
          /\ pc'[r] = IF questions[r] > 0 THEN "json" ELSE "mail"
      BY <1>8, <2>2 DEF StorePdf, Store, Goto, AfterAnalysis, DeliveryTypeOK
    <3> QED BY <2>1, <3>1 DEF ToldSoFar
  <2>3. CASE errors' = [errors EXCEPT ![r] = @ \cup {"pdf"}]
    BY <2>3 DEF ToldSoFar, DeliveryTypeOK
  <2> QED BY <1>8, <2>2, <2>3 DEF StorePdf, Store
<1>9. CASE StoreMarkdown(r)
  <2>1. pc[r] = "markdown" /\ errors[r] \subseteq errors'[r]
    BY <1>9 DEF StoreMarkdown, Store, DeliveryTypeOK
  <2> QED BY <1>1, <2>1 DEF ToldSoFar
<1>10. CASE StoreJson(r)
  <2>1. CASE /\ stored' = [stored EXCEPT ![r] = @ \cup {"json"}]
             /\ Goto(r, IF KeyOf[r] \in Mailed THEN "row" ELSE "mail")
             /\ UNCHANGED errors
    <3>1. /\ pc[r] = "json" /\ stored[r] \subseteq stored'[r] /\ errors'[r] = errors[r]
          /\ KeyOf[r] \in Mailed => pc'[r] = "row"
      BY <1>10, <2>1 DEF StoreJson, Store, Goto, DeliveryTypeOK
    <3> QED BY <1>1, <3>1 DEF ToldSoFar
  <2>2. CASE errors' = [errors EXCEPT ![r] = @ \cup {"json"}]
    BY <2>2 DEF ToldSoFar, DeliveryTypeOK
  <2> QED BY <1>10, <2>1, <2>2 DEF StoreJson, Store
<1>11. CASE WriteRow(r)
  <2>1. CASE rows' = rows \cup {r} /\ UNCHANGED errors
    <3>1. /\ pc[r] = "row" /\ pc'[r] = "mail" /\ stored'[r] = stored[r]
          /\ errors'[r] = errors[r] /\ r \in rows'
      BY <1>11, <2>1 DEF WriteRow, Goto, DeliveryTypeOK
    <3> QED BY <1>1, <3>1 DEF ToldSoFar
  <2>2. CASE errors' = [errors EXCEPT ![r] = @ \cup {"row"}]
    BY <2>2 DEF ToldSoFar, DeliveryTypeOK
  <2> QED BY <1>11, <2>1, <2>2 DEF WriteRow
<1>12. CASE RequestMail(r)
  <2>1. /\ pc[r] = "mail" /\ pc'[r] = "done" /\ UNCHANGED <<stored, errors, questions, rows>>
    BY <1>12 DEF RequestMail, Goto, DeliveryTypeOK
  <2> QED BY <1>1, <2>1 DEF ToldSoFar
<1> QED BY <1>3, <1>4, <1>5, <1>6, <1>7, <1>8, <1>9, <1>10, <1>11, <1>12
        DEF Next, DeliveryNext, RunStep

DeliverySafe == DeliveryTypeOK /\ AllDelivered

LEMMA DeliverySafeStep == DeliverySafe /\ [Next]_vars => DeliverySafe'
BY DeliveryTypeStep, DeliveredStep DEF DeliverySafe

\* For any runs, keys and failures, with profiles made at the same time: what a
\* response says was stored, the run has stored, and without errors in it the
\* PDF, the JSON and the row of a run with a recipient are there.
THEOREM HonestResponses == Spec => []ResponseIsHonest
<1>1. Init => DeliverySafe /\ AllTold
  BY InitDelivered DEF DeliverySafe, Init, DeliveryInit, AllTold, ToldSoFar
<1>2. (DeliverySafe /\ AllTold) /\ [Next]_vars => (DeliverySafe /\ AllTold)'
  BY DeliverySafeStep, ToldStep DEF DeliverySafe
<1>3. DeliverySafe /\ AllTold => ResponseIsHonest
  BY DEF DeliverySafe, AllDelivered, Delivered, AllTold, ToldSoFar, ResponseIsHonest
<1> QED BY <1>1, <1>2, <1>3, PTL DEF Spec

-----------------------------------------------------------------------------
(* The PDF an email carries.                                               *)

\* A worker holds, and has sent, a PDF no older than the run's.
FreshSoFar ==
    /\ \A r \in Run : \A content \in attached[r] :
          Place(r) \in Prefix /\ CarriesFreshPdf(r, content)
    /\ \A m \in sent : /\ m[1] \in Run /\ Place(m[1]) \in Prefix
                      /\ CarriesFreshPdf(m[1], m[2])

LEMMA FreshStays ==
    ASSUME DeliveryTypeOK, [Next]_vars, NEW r \in Run, NEW content,
           Place(r) \in Prefix, CarriesFreshPdf(r, content)
    PROVE  CarriesFreshPdf(r, content)'
<1> DEFINE before == objects[<<"pdf", Place(r)>>]
           after == objects'[<<"pdf", Place(r)>>]
<1>1. before \in Seq(Run) /\ Grows(before, after, "pdf", Place(r))
  BY HistoryGrows DEF DeliveryTypeOK, Kinds
<1>2. \A i \in DOMAIN before : i \in DOMAIN after /\ after[i] = before[i]
  BY <1>1, GrownKeeps
<1>3. History("pdf", r) = before /\ History("pdf", r)' = after
  BY DEF History, Place
<1>4. PICK i \in DOMAIN before, j \in DOMAIN before :
         i =< j /\ before[i] = r /\ before[j] = content
  BY <1>3 DEF CarriesFreshPdf
<1>5. i \in DOMAIN after /\ j \in DOMAIN after /\ after[i] = r /\ after[j] = content
  BY <1>2, <1>4
<1> HIDE DEF before, after
<1> QED BY <1>3, <1>4, <1>5 DEF CarriesFreshPdf

\* What is fetched is the last PDF, and the run's own is there.
LEMMA FetchedIsFresh ==
    ASSUME DeliverySafe, NEW r \in events
    PROVE  /\ r \in Run /\ Place(r) \in Prefix
           /\ CarriesFreshPdf(r, Content("pdf", r))
<1> DEFINE h == History("pdf", r)
<1>1. /\ r \in Run /\ Place(r) \in Prefix
      /\ h \in Seq(Run) /\ r \in Elements(h) /\ Len(h) \in DOMAIN h
  BY EventHasPdf DEF DeliverySafe
<1>2. PICK i \in DOMAIN h : h[i] = r
  BY <1>1 DEF Elements
<1>3. i =< Len(h)
  BY <1>1, <1>2
<1>4. Content("pdf", r) = h[Len(h)]
  BY DEF Content
<1> HIDE DEF h
<1>5. \E k, l \in DOMAIN h : k =< l /\ h[k] = r /\ h[l] = Content("pdf", r)
  BY <1>1, <1>2, <1>3, <1>4
<1> QED BY <1>1, <1>5 DEF CarriesFreshPdf, h

LEMMA FreshStep ==
    ASSUME DeliverySafe, FreshSoFar, [Next]_vars
    PROVE  FreshSoFar'
<1>1. ASSUME NEW r \in Run, NEW content \in attached[r]
      PROVE  Place(r) \in Prefix /\ CarriesFreshPdf(r, content)'
  BY <1>1, FreshStays DEF FreshSoFar, DeliverySafe
<1>2. ASSUME NEW m \in sent
      PROVE  m[1] \in Run /\ Place(m[1]) \in Prefix /\ CarriesFreshPdf(m[1], m[2])'
  BY <1>2, FreshStays DEF FreshSoFar, DeliverySafe
<1>3. CASE UNCHANGED <<attached, sent>>
  BY <1>1, <1>2, <1>3 DEF FreshSoFar, Place
<1>4. ASSUME NEW w \in Run, SendMail(w) PROVE FreshSoFar'
  <2>1. /\ \A r \in Run : attached'[r] \subseteq attached[r]
        /\ \A m \in sent' : m \in sent \/ (m[1] = w /\ m[2] \in attached[w])
    BY <1>4 DEF SendMail, DeliverySafe, DeliveryTypeOK
  <2> QED BY <1>1, <1>2, <1>4, <2>1 DEF FreshSoFar, Place
<1>5. ASSUME NEW w \in Run, FetchPdf(w) PROVE FreshSoFar'
  <2>1. /\ w \in events /\ UNCHANGED <<sent, objects>>
        /\ attached' = attached \/ attached' = [attached EXCEPT ![w] = {Content("pdf", w)}]
    BY <1>5 DEF FetchPdf
  <2>2. Place(w) \in Prefix /\ CarriesFreshPdf(w, Content("pdf", w))
    BY <2>1, FetchedIsFresh
  <2>3. \A r \in Run : \A content \in attached'[r] :
           content \in attached[r] \/ (r = w /\ content = Content("pdf", w))
    BY <2>1 DEF DeliverySafe, DeliveryTypeOK
  <2>4. \A r \in Run : \A content \in attached'[r] :
           Place(r) \in Prefix /\ CarriesFreshPdf(r, content)'
    <3> SUFFICES ASSUME NEW r \in Run, NEW content \in attached'[r]
                 PROVE  Place(r) \in Prefix /\ CarriesFreshPdf(r, content)'
      OBVIOUS
    <3>1. CASE content \in attached[r]
      BY <1>1, <3>1
    <3>2. CASE r = w /\ content = Content("pdf", w)
      BY <2>1, <2>2, <3>2 DEF CarriesFreshPdf, Content, History, Place
    <3> QED BY <2>3, <3>1, <3>2
  <2> QED BY <1>2, <2>1, <2>4 DEF FreshSoFar, Place
<1>6. ASSUME NEW w \in Run, RunStep(w) PROVE UNCHANGED <<attached, sent>>
  BY <1>6 DEF RunStep, Respond, StorePdf, StoreMarkdown, StoreJson, Store, WriteRow,
              RequestMail, mailVars
<1>7. ASSUME NEW p \in Request, RequestStep(p) PROVE UNCHANGED <<attached, sent>>
  BY <1>7, RequestsOnlyRead
<1>8. UNCHANGED vars => UNCHANGED <<attached, sent>>
  BY DEF vars, deliveryVars, mailVars
<1> QED BY <1>3, <1>4, <1>5, <1>6, <1>7, <1>8 DEF Next, DeliveryNext, WorkerStep

\* For any runs that share names, and any deliveries of their events: no email
\* carries a PDF from before the run that asked for it.
THEOREM FreshPdfs == Spec => []MailAttachesFreshPdf
<1>1. Init => DeliverySafe /\ FreshSoFar
  BY InitDelivered DEF DeliverySafe, Init, DeliveryInit, FreshSoFar
<1>2. (DeliverySafe /\ FreshSoFar) /\ [Next]_vars => (DeliverySafe /\ FreshSoFar)'
  BY DeliverySafeStep, FreshStep
<1>3. FreshSoFar => MailAttachesFreshPdf
  BY DEF FreshSoFar, MailAttachesFreshPdf
<1> QED BY <1>1, <1>2, <1>3, PTL DEF Spec

-----------------------------------------------------------------------------
(* What a profile request reads.                                           *)

\* A run that has begun has its questions; only runs that write are in a
\* history, each in that of its prefix.
LEMMA BegunStays ==
    ASSUME DeliveryTypeOK, [Next]_vars, NEW r \in Run, pc[r] # "new"
    PROVE  pc'[r] # "new" /\ questions'[r] = questions[r]
<1>1. ASSUME NEW w \in Run, RunStep(w) PROVE pc'[r] # "new" /\ questions'[r] = questions[r]
  <2>1. CASE Respond(w)
    BY <2>1 DEF Respond, Goto, DeliveryTypeOK
  <2>2. AfterAnalysis(w) \in {"json", "mail"}
    BY DEF AfterAnalysis
  <2>3. CASE StorePdf(w) \/ StoreMarkdown(w) \/ StoreJson(w)
    BY <2>2, <2>3 DEF StorePdf, StoreMarkdown, StoreJson, Store, Goto, DeliveryTypeOK
  <2>4. CASE WriteRow(w) \/ RequestMail(w)
    BY <2>4 DEF WriteRow, RequestMail, Goto, DeliveryTypeOK
  <2> QED BY <1>1, <2>1, <2>3, <2>4 DEF RunStep
<1>2. ASSUME NEW w \in Run, WorkerStep(w) PROVE UNCHANGED <<pc, questions>>
  BY <1>2 DEF WorkerStep, FetchPdf, SendMail, runVars
<1>3. ASSUME NEW p \in Request, RequestStep(p) PROVE UNCHANGED <<pc, questions>>
  BY <1>3, RequestsOnlyRead
<1>4. UNCHANGED vars => UNCHANGED <<pc, questions>>
  BY DEF vars, deliveryVars, runVars
<1> QED BY <1>1, <1>2, <1>3, <1>4 DEF Next, DeliveryNext

HistoriesAreTrue ==
    \A place \in Prefix : \A w \in Elements(objects[<<"json", place>>]) :
        w \in Run /\ Place(w) = place /\ pc[w] # "new"

LEMMA ElementsOfAppend ==
    ASSUME NEW h \in Seq(Run), NEW x \in Run
    PROVE  Elements(Append(h, x)) = Elements(h) \cup {x}
<1> DEFINE g == Append(h, x)
<1>1. /\ DOMAIN g = DOMAIN h \cup {Len(h) + 1}
      /\ \A i \in DOMAIN h : g[i] = h[i]
      /\ g[Len(h) + 1] = x
  OBVIOUS
<1> HIDE DEF g
<1>2. Elements(g) \subseteq Elements(h) \cup {x}
  BY <1>1 DEF Elements
<1>3. Elements(h) \cup {x} \subseteq Elements(g)
  BY <1>1 DEF Elements
<1> QED BY <1>2, <1>3 DEF g

LEMMA HistoriesStep ==
    ASSUME DeliveryTypeOK, HistoriesAreTrue, [Next]_vars
    PROVE  HistoriesAreTrue'
<1> SUFFICES ASSUME NEW place \in Prefix, NEW w \in Elements(objects'[<<"json", place>>])
             PROVE  w \in Run /\ Place(w) = place /\ pc'[w] # "new"
  BY DEF HistoriesAreTrue, Place
<1> DEFINE before == objects[<<"json", place>>]
           after == objects'[<<"json", place>>]
<1>1. before \in Seq(Run) /\ Grows(before, after, "json", place)
  BY HistoryGrows DEF DeliveryTypeOK, Kinds
<1>2. \/ w \in Elements(before)
      \/ w \in Run /\ Place(w) = place /\ pc[w] = "json"
  <2>1. CASE after = before
    BY <2>1
  <2>2. ASSUME NEW x \in Run, Place(x) = place, pc[x] = "json", after = Append(before, x)
        PROVE  w \in Elements(before) \/ w = x
    <3>1. before \in Seq(Run) /\ w \in Elements(after)
      BY <1>1
    <3> HIDE DEF before, after
    <3> QED BY <2>2, <3>1, ElementsOfAppend
  <2> QED BY <1>1, <2>1, <2>2 DEF Grows
<1>3. w \in Run /\ Place(w) = place /\ pc[w] # "new"
  BY <1>2 DEF HistoriesAreTrue
<1> QED BY <1>3, BegunStays

\* The reports a request has are those of their ids, at most one of each, from
\* the histories; the rows it was given have reached theirs.
ReportsAreTrue(p) ==
    /\ snapshot[p] \subseteq rows
    /\ \A k \in Key : \A c \in reports[p][k] :
          /\ c \in Run /\ KeyOf[c] = k /\ pc[c] # "new" /\ Place(c) \in Prefix
          /\ c \in Elements(History("json", c))
          /\ \A d \in reports[p][k] : d = c

\* What is still to be loaded are rows it was given, and every row is to be
\* loaded, broken, has a report, or was overwritten.
LoadingIsOrderly(p) ==
    /\ \A i \in todo[p] : i \in DOMAIN dated /\ dated[i] \in snapshot[p]
    /\ phase[p] \notin {"idle", "loading"} => todo[p] = {}
    /\ phase[p] # "idle" =>
          \A row \in snapshot[p] \ broken[p] :
              \/ \E i \in todo[p] : dated[i] = row
              \/ ReportOf(p, row) # {}
              \/ Overwritten(row)

ProfileTypeOK ==
    /\ phase \in [Request -> Phases]
    /\ snapshot \in [Request -> SUBSET Run]
    /\ todo \in [Request -> SUBSET Nat]
    /\ reports \in [Request -> [Key -> SUBSET Run]]
    /\ broken \in [Request -> SUBSET Run]

Reading ==
    /\ ProfileTypeOK /\ HistoriesAreTrue
    /\ \A p \in Request : ReportsAreTrue(p) /\ LoadingIsOrderly(p)

\* A row has its JSON in the history of its prefix.
LEMMA RowHasJson ==
    ASSUME DeliverySafe, NEW r \in rows
    PROVE  /\ r \in Run /\ Place(r) \in Prefix /\ pc[r] # "new"
           /\ History("json", r) \in Seq(Run) /\ r \in Elements(History("json", r))
           /\ Len(History("json", r)) \in DOMAIN History("json", r)
           /\ \E i \in DOMAIN dated : dated[i] = r
<1>1. r \in Run /\ Delivered(r)
  BY DEF DeliverySafe, DeliveryTypeOK, AllDelivered
<1>2. /\ Place(r) \in Prefix /\ r \in Elements(History("json", r))
      /\ pc[r] # "new" /\ r \in Elements(dated)
  BY <1>1 DEF Delivered
<1>3. History("json", r) \in Seq(Run)
  BY <1>2 DEF History, Kinds, DeliverySafe, DeliveryTypeOK
<1>4. Len(History("json", r)) \in DOMAIN History("json", r)
  BY <1>2, <1>3 DEF Elements
<1> QED BY <1>1, <1>2, <1>3, <1>4 DEF Elements

\* What a load returns was written there, and if it is of another report than
\* the row's, the row's own was overwritten.
LEMMA LoadedContent ==
    ASSUME DeliverySafe, HistoriesAreTrue, NEW row \in rows
    PROVE  LET c == Content("json", row)
           IN  /\ c \in Run /\ pc[c] # "new" /\ Place(c) \in Prefix
               /\ c \in Elements(History("json", c))
               /\ SameReport(c, row) \/ Overwritten(row)
<1> DEFINE c == Content("json", row)
           h == History("json", row)
<1>1. /\ row \in Run /\ Place(row) \in Prefix /\ h \in Seq(Run)
      /\ row \in Elements(h) /\ Len(h) \in DOMAIN h
  BY RowHasJson
<1>2. c = h[Len(h)] /\ c \in Elements(h)
  BY <1>1 DEF Content, Elements
<1>3. c \in Run /\ Place(c) = Place(row) /\ pc[c] # "new"
  BY <1>1, <1>2 DEF HistoriesAreTrue, History
<1>4. c \in Elements(History("json", c))
  BY <1>2, <1>3 DEF History
<1>5. SameReport(c, row) \/ Overwritten(row)
  <2> SUFFICES ASSUME ~SameReport(c, row) PROVE Overwritten(row)
    OBVIOUS
  <2>1. PICK i \in DOMAIN h : h[i] = row
    BY <1>1 DEF Elements
  <2>2. c # row
    BY DEF SameReport
  <2>3. i < Len(h)
    BY <1>1, <1>2, <2>1, <2>2
  <2> HIDE DEF c, h
  <2>4. \E a, b \in DOMAIN h : a < b /\ h[a] = row /\ ~SameReport(h[b], row)
    BY <1>1, <1>2, <2>1, <2>3
  <2> QED BY <2>4 DEF Overwritten, h
<1> QED BY <1>1, <1>3, <1>4, <1>5

LEMMA OverwrittenStays ==
    ASSUME DeliverySafe, [Next]_vars, NEW row \in rows, Overwritten(row)
    PROVE  Overwritten(row)'
<1> DEFINE before == objects[<<"json", Place(row)>>]
           after == objects'[<<"json", Place(row)>>]
<1>1. Place(row) \in Prefix
  BY RowHasJson
<1>2. before \in Seq(Run) /\ Grows(before, after, "json", Place(row))
  BY <1>1, HistoryGrows DEF DeliverySafe, DeliveryTypeOK, Kinds
<1>3. \A i \in DOMAIN before : i \in DOMAIN after /\ after[i] = before[i]
  BY <1>2, GrownKeeps
<1>4. History("json", row) = before /\ History("json", row)' = after
  BY DEF History, Place
<1>5. PICK i \in DOMAIN before, j \in DOMAIN before :
         i < j /\ before[i] = row /\ ~SameReport(before[j], row)
  BY <1>4 DEF Overwritten
<1>6. /\ i \in DOMAIN after /\ j \in DOMAIN after
      /\ after[i] = row /\ ~SameReport(after[j], row)
  BY <1>3, <1>5
<1> HIDE DEF before, after
<1> QED BY <1>4, <1>5, <1>6 DEF Overwritten, SameReport

LEMMA DatedStays ==
    ASSUME DeliveryTypeOK, [Next]_vars, NEW i \in DOMAIN dated
    PROVE  i \in DOMAIN dated' /\ dated'[i] = dated[i]
<1>1. dated \in Seq(Run)
  BY DEF DeliveryTypeOK
<1>2. ASSUME NEW w \in Run, dated' = Append(dated, w)
      PROVE  i \in DOMAIN dated' /\ dated'[i] = dated[i]
  BY <1>1, <1>2
<1>3. ASSUME NEW w \in Run, RunStep(w) PROVE dated' = dated \/ dated' = Append(dated, w)
  BY <1>3 DEF RunStep, Respond, StorePdf, StoreMarkdown, StoreJson, Store, WriteRow,
              RequestMail
<1>4. ASSUME NEW w \in Run, WorkerStep(w) PROVE dated' = dated
  BY <1>4 DEF WorkerStep, FetchPdf, SendMail
<1>5. ASSUME NEW p \in Request, RequestStep(p) PROVE dated' = dated
  BY <1>5, RequestsOnlyRead
<1>6. UNCHANGED vars => dated' = dated
  BY DEF vars, deliveryVars
<1> QED BY <1>2, <1>3, <1>4, <1>5, <1>6 DEF Next, DeliveryNext

LEMMA RowsStay ==
    ASSUME [Next]_vars
    PROVE  rows \subseteq rows'
<1>1. ASSUME NEW w \in Run, RunStep(w) PROVE rows \subseteq rows'
  BY <1>1 DEF RunStep, Respond, StorePdf, StoreMarkdown, StoreJson, Store, WriteRow,
              RequestMail
<1>2. ASSUME NEW w \in Run, WorkerStep(w) PROVE rows' = rows
  BY <1>2 DEF WorkerStep, FetchPdf, SendMail
<1>3. ASSUME NEW p \in Request, RequestStep(p) PROVE rows' = rows
  BY <1>3, RequestsOnlyRead
<1>4. UNCHANGED vars => rows' = rows
  BY DEF vars, deliveryVars
<1> QED BY <1>1, <1>2, <1>3, <1>4 DEF Next, DeliveryNext

\* What is in the history of its place is there after a step.
LEMMA InHistoryStays ==
    ASSUME DeliveryTypeOK, [Next]_vars, NEW c \in Run, Place(c) \in Prefix,
           c \in Elements(History("json", c))
    PROVE  c \in Elements(History("json", c))'
<1> DEFINE before == objects[<<"json", Place(c)>>]
           after == objects'[<<"json", Place(c)>>]
<1>1. before \in Seq(Run) /\ Grows(before, after, "json", Place(c))
  BY HistoryGrows DEF DeliveryTypeOK, Kinds
<1>2. Elements(before) \subseteq Elements(after)
  BY <1>1, GrownKeeps
<1> QED BY <1>2 DEF History, Place, Elements

\* What a request holds while it makes no step.
LEMMA ReportsStay ==
    ASSUME DeliverySafe, [Next]_vars, NEW p \in Request, ReportsAreTrue(p),
           reports'[p] = reports[p], snapshot'[p] = snapshot[p]
    PROVE  ReportsAreTrue(p)'
<1>1. snapshot'[p] \subseteq rows'
  BY RowsStay DEF ReportsAreTrue
<1>2. ASSUME NEW k \in Key, NEW c \in reports[p][k]
      PROVE  /\ c \in Run /\ KeyOf[c] = k /\ pc'[c] # "new" /\ Place(c) \in Prefix
             /\ c \in Elements(History("json", c))'
             /\ \A d \in reports[p][k] : d = c
  <2>1. /\ c \in Run /\ KeyOf[c] = k /\ pc[c] # "new" /\ Place(c) \in Prefix
        /\ c \in Elements(History("json", c))
        /\ \A d \in reports[p][k] : d = c
    BY DEF ReportsAreTrue
  <2> QED BY <2>1, BegunStays, InHistoryStays DEF DeliverySafe
<1> QED BY <1>1, <1>2 DEF ReportsAreTrue, Place

LEMMA LoadingStays ==
    ASSUME DeliverySafe, [Next]_vars, NEW p \in Request, ReportsAreTrue(p),
           LoadingIsOrderly(p),
           reports'[p] = reports[p], snapshot'[p] = snapshot[p],
           todo'[p] = todo[p], broken'[p] = broken[p],
           phase'[p] \in {"idle", "loading"} <=> phase[p] \in {"idle", "loading"},
           phase'[p] = "idle" <=> phase[p] = "idle"
    PROVE  LoadingIsOrderly(p)'
<1>1. \A i \in todo[p] : /\ i \in DOMAIN dated' /\ dated'[i] = dated[i]
                         /\ dated[i] \in snapshot[p]
  BY DatedStays DEF LoadingIsOrderly, DeliverySafe
<1>2. \A row \in snapshot[p] : Overwritten(row) => Overwritten(row)'
  BY OverwrittenStays DEF ReportsAreTrue
<1>3. \A row \in snapshot[p] : ReportOf(p, row)' = ReportOf(p, row)
  BY DEF ReportOf
<1> QED BY <1>1, <1>2, <1>3 DEF LoadingIsOrderly

LEMMA QueryReads ==
    ASSUME DeliverySafe, Reading, NEW p \in Request, Query(p)
    PROVE  ProfileTypeOK' /\ ReportsAreTrue(p)' /\ LoadingIsOrderly(p)'
<1>1. /\ ProfileTypeOK /\ ReportsAreTrue(p) /\ LoadingIsOrderly(p)
      /\ rows \subseteq Run /\ dated \in Seq(Run)
  BY DEF Reading, DeliverySafe, DeliveryTypeOK
<1>2. /\ snapshot'[p] = rows
      /\ todo'[p] = {i \in DOMAIN dated : dated[i] \in rows}
      /\ phase'[p] = IF rows = {} THEN "no_history" ELSE "loading"
      /\ UNCHANGED <<pc, objects, dated, rows, reports, broken>>
  BY <1>1 DEF Query, Move, deliveryVars, runVars, ProfileTypeOK
<1>3. ProfileTypeOK'
  <2>1. {i \in DOMAIN dated : dated[i] \in rows} \in SUBSET Nat
    BY <1>1
  <2> QED BY <1>1, <2>1 DEF Query, Move, Phases, ProfileTypeOK
<1>4. ReportsAreTrue(p)'
  BY <1>1, <1>2 DEF ReportsAreTrue, Place, History
<1>5. \A row \in rows : \E i \in todo'[p] : dated[i] = row
  BY <1>2, RowHasJson
<1>6. LoadingIsOrderly(p)'
  BY <1>2, <1>5 DEF LoadingIsOrderly
<1> QED BY <1>3, <1>4, <1>6

LEMMA LoadReads ==
    ASSUME DeliverySafe, Reading, NEW p \in Request, LoadReport(p)
    PROVE  ProfileTypeOK' /\ ReportsAreTrue(p)' /\ LoadingIsOrderly(p)'
<1>1. /\ ProfileTypeOK /\ ReportsAreTrue(p) /\ LoadingIsOrderly(p) /\ HistoriesAreTrue
      /\ phase[p] = "loading"
  BY DEF Reading, LoadReport
<1>2. UNCHANGED <<pc, objects, dated, rows, snapshot>>
  BY DEF LoadReport, runVars
<1>3. PICK i \in todo[p] :
         /\ todo' = [todo EXCEPT ![p] = @ \ {i}]
         /\ Move(p, IF todo[p] = {i} THEN "pairing" ELSE "loading")
         /\ \/ /\ reports' = [reports EXCEPT ![p][KeyOf[Content("json", dated[i])]] =
                                {Content("json", dated[i])}]
               /\ UNCHANGED broken
            \/ /\ broken' = [broken EXCEPT ![p] = @ \cup {dated[i]}]
               /\ UNCHANGED reports
  BY DEF LoadReport
<1> DEFINE row0 == dated[i]
           c == Content("json", row0)
<1>4. row0 \in snapshot[p] /\ row0 \in rows /\ row0 \in Run
  BY <1>1 DEF LoadingIsOrderly, ReportsAreTrue, DeliverySafe, DeliveryTypeOK
<1>5. /\ c \in Run /\ pc[c] # "new" /\ Place(c) \in Prefix
      /\ c \in Elements(History("json", c))
      /\ SameReport(c, row0) \/ Overwritten(row0)
  BY <1>1, <1>4, LoadedContent
<1>6. KeyOf[c] \in Key
  BY <1>5
<1>7. /\ todo'[p] = todo[p] \ {i}
      /\ phase'[p] = IF todo[p] = {i} THEN "pairing" ELSE "loading"
  BY <1>1, <1>3 DEF Move, ProfileTypeOK
<1> HIDE DEF c
<1>8. CASE reports' = [reports EXCEPT ![p][KeyOf[c]] = {c}] /\ UNCHANGED broken
  <2>1. /\ reports'[p] \in [Key -> SUBSET Run]
        /\ \A k \in Key : reports'[p][k] = IF k = KeyOf[c] THEN {c} ELSE reports[p][k]
    BY <1>1, <1>5, <1>6, <1>8 DEF ProfileTypeOK
  <2>2. ProfileTypeOK'
    BY <1>1, <1>2, <1>3, <1>8, <2>1 DEF ProfileTypeOK, Move, Phases
  <2>3. ReportsAreTrue(p)'
    BY <1>1, <1>2, <1>5, <2>1 DEF ReportsAreTrue, Place, History
  <2>4. ASSUME NEW row \in snapshot[p] \ broken[p]
        PROVE  \/ \E j \in todo'[p] : dated[j] = row
               \/ ReportOf(p, row)' # {}
               \/ Overwritten(row)
    <3>1. row \in Run /\ KeyOf[row] \in Key
      BY <1>1 DEF ProfileTypeOK
    <3>2. ReportOf(p, row)' = IF KeyOf[row] = KeyOf[c] THEN {c} ELSE ReportOf(p, row)
      BY <2>1, <3>1 DEF ReportOf
    <3>3. \/ \E j \in todo[p] : dated[j] = row
          \/ ReportOf(p, row) # {}
          \/ Overwritten(row)
      BY <1>1 DEF LoadingIsOrderly
    <3> QED BY <1>5, <1>7, <3>2, <3>3 DEF SameReport
  <2>5. \A row \in Run : Overwritten(row)' = Overwritten(row)
    BY <1>2 DEF Overwritten, History, Place
  <2>6. snapshot[p] \subseteq Run
    BY <1>1 DEF ProfileTypeOK
  <2>7. LoadingIsOrderly(p)'
    BY <1>1, <1>2, <1>7, <1>8, <2>4, <2>5, <2>6 DEF LoadingIsOrderly
  <2> QED BY <2>2, <2>3, <2>7
<1>9. CASE broken' = [broken EXCEPT ![p] = @ \cup {row0}] /\ UNCHANGED reports
  <2>1. broken'[p] = broken[p] \cup {row0}
    BY <1>1, <1>9 DEF ProfileTypeOK
  <2>2. ProfileTypeOK'
    <3>1. broken' \in [Request -> SUBSET Run]
      BY <1>1, <1>4, <1>9 DEF ProfileTypeOK
    <3> QED BY <1>1, <1>2, <1>3, <1>9, <3>1 DEF ProfileTypeOK, Move, Phases
  <2>3. ReportsAreTrue(p)'
    BY <1>1, <1>2, <1>9 DEF ReportsAreTrue, Place, History
  <2>4. \A row \in Run : /\ Overwritten(row)' = Overwritten(row)
                         /\ ReportOf(p, row)' = ReportOf(p, row)
    BY <1>2, <1>9 DEF Overwritten, History, Place, ReportOf
  <2>5. snapshot[p] \subseteq Run
    BY <1>1 DEF ProfileTypeOK
  <2>6. LoadingIsOrderly(p)'
    BY <1>1, <1>2, <1>7, <2>1, <2>4, <2>5 DEF LoadingIsOrderly
  <2> QED BY <2>2, <2>3, <2>6
<1> QED BY <1>3, <1>8, <1>9 DEF c

\* The steps of a request past the loading.
LateStep(p) == Pair(p) \/ Embed(p) \/ SaveEmbedding(p) \/ Analyse(p) \/ Publish(p)

LEMMA LateStepsKeep ==
    ASSUME ProfileTypeOK, NEW p \in Request, LateStep(p)
    PROVE  /\ UNCHANGED <<snapshot, todo, reports, broken>>
           /\ phase[p] \notin {"idle", "loading"}
           /\ phase'[p] \notin {"idle", "loading"}
           /\ phase' \in [Request -> Phases]
           /\ \A q \in Request : q # p => phase'[q] = phase[q]
BY DEF LateStep, Pair, Embed, SaveEmbedding, Analyse, Publish, Move, ProfileTypeOK, Phases

LEMMA OtherRequestsWait ==
    ASSUME ProfileTypeOK, NEW p \in Request, Query(p) \/ LoadReport(p),
           NEW q \in Request, q # p
    PROVE  /\ phase'[q] = phase[q] /\ snapshot'[q] = snapshot[q] /\ todo'[q] = todo[q]
           /\ reports'[q] = reports[q] /\ broken'[q] = broken[q]
BY DEF Query, LoadReport, Move, ProfileTypeOK

LEMMA InitReading == Init => Reading
BY DEF Init, DeliveryInit, ProfileInit, Reading, ProfileTypeOK, HistoriesAreTrue,
       ReportsAreTrue, LoadingIsOrderly, Phases, Kinds, Elements

LEMMA ReadingStep ==
    ASSUME DeliverySafe, Reading, [Next]_vars
    PROVE  Reading'
<1>1. HistoriesAreTrue' /\ ProfileTypeOK
  BY HistoriesStep DEF Reading, DeliverySafe
<1>2. ASSUME NEW q \in Request,
             reports'[q] = reports[q], snapshot'[q] = snapshot[q], todo'[q] = todo[q],
             broken'[q] = broken[q],
             phase'[q] \in {"idle", "loading"} <=> phase[q] \in {"idle", "loading"},
             phase'[q] = "idle" <=> phase[q] = "idle"
      PROVE  ReportsAreTrue(q)' /\ LoadingIsOrderly(q)'
  <2>1. ReportsAreTrue(q) /\ LoadingIsOrderly(q)
    BY DEF Reading
  <2> QED BY <1>2, <2>1, ReportsStay, LoadingStays
<1>3. ASSUME UNCHANGED <<phase, snapshot, todo, reports, broken>> PROVE Reading'
  <2>1. ProfileTypeOK'
    BY <1>1, <1>3 DEF ProfileTypeOK
  <2> QED BY <1>1, <1>2, <1>3, <2>1 DEF Reading
<1>4. ASSUME NEW p \in Request, Query(p) \/ LoadReport(p) PROVE Reading'
  <2>1. ProfileTypeOK' /\ ReportsAreTrue(p)' /\ LoadingIsOrderly(p)'
    BY <1>4, QueryReads, LoadReads
  <2>2. \A q \in Request : q # p => ReportsAreTrue(q)' /\ LoadingIsOrderly(q)'
    BY <1>1, <1>2, <1>4, OtherRequestsWait
  <2> QED BY <1>1, <2>1, <2>2 DEF Reading
<1>5. ASSUME NEW p \in Request, LateStep(p) PROVE Reading'
  <2>1. \A q \in Request : ReportsAreTrue(q)' /\ LoadingIsOrderly(q)'
    BY <1>1, <1>2, <1>5, LateStepsKeep
  <2>2. ProfileTypeOK'
    BY <1>1, <1>5, LateStepsKeep DEF ProfileTypeOK
  <2> QED BY <1>1, <2>1, <2>2 DEF Reading
<1> QED BY <1>3, <1>4, <1>5 DEF Next, RequestStep, LateStep, vars, requestVars

LEMMA SafeReading == Spec => [](DeliverySafe /\ Reading)
<1>1. Init => DeliverySafe /\ Reading
  BY InitDelivered, InitReading DEF Init, DeliverySafe
<1>2. (DeliverySafe /\ Reading) /\ [Next]_vars => (DeliverySafe /\ Reading)'
  BY DeliverySafeStep, ReadingStep
<1> QED BY <1>1, <1>2, PTL DEF Spec

\* For any history: a row a profile leaves out without a loading error has lost
\* its JSON to a later run of another key.
THEOREM OmittedWereOverwritten == Spec => []OmittedRowWasOverwritten
<1>1. Reading => OmittedRowWasOverwritten
  BY DEF Reading, LoadingIsOrderly, OmittedRowWasOverwritten
<1> QED BY <1>1, SafeReading, PTL

-----------------------------------------------------------------------------
(* What a profile makes of it.                                             *)

\* Two runs of one key have both written a JSON.
Rerun(q, r) ==
    /\ q # r /\ SameReport(q, r) /\ Place(r) \in Prefix
    /\ {q, r} \subseteq Elements(History("json", r))
BadDataIsRerun ==
    \A p \in Request : phase[p] = "bad_data" => \E q, r \in Run : Rerun(q, r)

LEMMA SameReportSamePlace ==
    ASSUME NEW q \in Run, NEW r \in Run, SameReport(q, r)
    PROVE  /\ Place(q) = Place(r) /\ History("json", q) = History("json", r)
           /\ History("json", q)' = History("json", r)'
BY DEF SameReport, Place, History

LEMMA RerunStays ==
    ASSUME DeliverySafe, [Next]_vars, NEW q \in Run, NEW r \in Run, Rerun(q, r)
    PROVE  Rerun(q, r)'
<1>1. /\ q \in Elements(History("json", q)) /\ r \in Elements(History("json", r))
      /\ Place(q) \in Prefix /\ Place(r) \in Prefix /\ SameReport(q, r) /\ q # r
  BY SameReportSamePlace DEF Rerun
<1>2. q \in Elements(History("json", q))' /\ r \in Elements(History("json", r))'
  BY <1>1, InHistoryStays DEF DeliverySafe
<1>3. History("json", q)' = History("json", r)'
  BY <1>1, SameReportSamePlace
<1> QED BY <1>1, <1>2, <1>3 DEF Rerun, SameReport, Place, Elements

\* The metadata and the JSON of one id disagree: they are of two runs.
LEMMA MismatchIsRerun ==
    ASSUME DeliverySafe, Reading, NEW p \in Request, Mismatch(p)
    PROVE  \E q, r \in Run : Rerun(q, r)
<1>1. PICK row \in snapshot[p] : \E report \in ReportOf(p, row) :
         questions[report] # questions[row]
  BY DEF Mismatch
<1>2. PICK report \in ReportOf(p, row) : questions[report] # questions[row]
  BY <1>1
<1>3. row \in rows
  BY DEF Reading, ReportsAreTrue
<1>4. /\ row \in Run /\ Place(row) \in Prefix
      /\ row \in Elements(History("json", row))
  BY <1>3, RowHasJson
<1>5. /\ report \in Run /\ SameReport(report, row)
      /\ report \in Elements(History("json", report))
  BY <1>4 DEF Reading, ReportsAreTrue, ReportOf, SameReport
<1> QED BY <1>2, <1>4, <1>5, SameReportSamePlace DEF Rerun

\* What an item is made of.
LEMMA ItemParts ==
    ASSUME NEW p \in Request, NEW item \in Items(p)
    PROVE  /\ item.row \in snapshot[p] /\ item.report \in ReportOf(p, item.row)
           /\ \E n \in 1..questions[item.report] :
                 item = [row |-> item.row, id |-> <<KeyOf[item.row], n>>,
                         report |-> item.report]
<1>1. PICK row \in snapshot[p] : \E report \in ReportOf(p, row) :
         item \in ItemsOf(row, report)
  BY DEF Items
<1>2. PICK report \in ReportOf(p, row) : item \in ItemsOf(row, report)
  BY <1>1
<1>3. PICK n \in 1..questions[report] :
         item = [row |-> row, id |-> <<KeyOf[row], n>>, report |-> report]
  BY <1>2 DEF ItemsOf
<1> QED BY <1>1, <1>2, <1>3

\* Of one id there is one report: two items of one id are of two rows.
LEMMA OneReportPerId ==
    ASSUME DeliverySafe, Reading, NEW p \in Request,
           NEW a \in Items(p), NEW b \in Items(p), a.id = b.id
    PROVE  /\ a.row \in rows /\ b.row \in rows /\ a.report \in Run
           /\ KeyOf[a.row] = KeyOf[b.row]
           /\ a.report = b.report
           /\ a # b => a.row # b.row
<1>1. PICK n \in 1..questions[a.report] :
         a = [row |-> a.row, id |-> <<KeyOf[a.row], n>>, report |-> a.report]
  BY ItemParts
<1>2. PICK m \in 1..questions[b.report] :
         b = [row |-> b.row, id |-> <<KeyOf[b.row], m>>, report |-> b.report]
  BY ItemParts
<1>3. a.id = <<KeyOf[a.row], n>> /\ b.id = <<KeyOf[b.row], m>>
  BY <1>1, <1>2
<1>4. KeyOf[a.row] = KeyOf[b.row] /\ n = m
  <2>1. <<KeyOf[a.row], n>> = <<KeyOf[b.row], m>>
    BY <1>3, Zenon
  <2>2. \A k, l, i, j : <<k, i>> = <<l, j>> => k = l /\ i = j
    OBVIOUS
  <2> QED BY <2>1, <2>2, Zenon
<1>5. a.row \in rows /\ b.row \in rows /\ a.row \in Run /\ b.row \in Run
  BY ItemParts, RowHasJson DEF Reading, ReportsAreTrue
<1>6. a.report \in reports[p][KeyOf[a.row]] /\ b.report \in reports[p][KeyOf[a.row]]
  BY <1>4, ItemParts DEF ReportOf
<1>7. a.report = b.report /\ a.report \in Run
  BY <1>5, <1>6 DEF Reading, ReportsAreTrue
<1>8. a # b => a.row # b.row
  BY <1>1, <1>2, <1>4, <1>7
<1> QED BY <1>4, <1>5, <1>7, <1>8

LEMMA DuplicateIsRerun ==
    ASSUME DeliverySafe, Reading, NEW p \in Request, DuplicateIds(p)
    PROVE  \E q, r \in Run : Rerun(q, r)
<1>1. PICK a \in Items(p), b \in Items(p) : a # b /\ a.id = b.id
  BY DEF DuplicateIds
<1>2. /\ a.row \in rows /\ b.row \in rows
      /\ KeyOf[a.row] = KeyOf[b.row] /\ a.row # b.row
  BY <1>1, OneReportPerId
<1>3. /\ a.row \in Run /\ b.row \in Run /\ Place(b.row) \in Prefix
      /\ a.row \in Elements(History("json", a.row))
      /\ b.row \in Elements(History("json", b.row))
  BY <1>2, RowHasJson
<1> QED BY <1>2, <1>3, SameReportSamePlace DEF Rerun, SameReport

LEMMA BadDataStep ==
    ASSUME DeliverySafe, Reading, BadDataIsRerun, [Next]_vars
    PROVE  BadDataIsRerun'
<1>1. ASSUME \E q, r \in Run : Rerun(q, r) PROVE BadDataIsRerun'
  <2>1. PICK q \in Run, r \in Run : Rerun(q, r)
    BY <1>1
  <2>2. Rerun(q, r)'
    BY <2>1, RerunStays
  <2>3. \E x, y \in Run : Rerun(x, y)'
    BY <2>2
  <2> QED BY <2>3 DEF BadDataIsRerun, Rerun
<1>2. ASSUME \A p \in Request : phase'[p] = "bad_data" => phase[p] = "bad_data"
      PROVE  BadDataIsRerun'
  BY <1>1, <1>2 DEF BadDataIsRerun
<1>3. ASSUME NEW p \in Request, Pair(p) PROVE BadDataIsRerun'
  <2>1. CASE Mismatch(p)
    BY <1>1, <2>1, MismatchIsRerun
  <2>2. CASE ~Mismatch(p)
    BY <1>2, <1>3, <2>2 DEF Pair, Move, Reading, ProfileTypeOK
  <2> QED BY <2>1, <2>2
<1>4. ASSUME NEW p \in Request, Analyse(p) PROVE BadDataIsRerun'
  <2>1. CASE DuplicateIds(p)
    BY <1>1, <2>1, DuplicateIsRerun
  <2>2. CASE ~DuplicateIds(p)
    BY <1>2, <1>4, <2>2 DEF Analyse, Move, Reading, ProfileTypeOK
  <2> QED BY <2>1, <2>2
<1>5. ASSUME NEW p \in Request,
             Query(p) \/ LoadReport(p) \/ Embed(p) \/ SaveEmbedding(p) \/ Publish(p)
      PROVE  BadDataIsRerun'
  <2>1. \A q \in Request : phase'[q] = "bad_data" => phase[q] = "bad_data"
    BY <1>5 DEF Query, LoadReport, Embed, SaveEmbedding, Publish, Move, Reading,
                ProfileTypeOK
  <2> QED BY <1>2, <2>1
<1>6. ASSUME phase' = phase PROVE BadDataIsRerun'
  BY <1>2, <1>6
<1> QED BY <1>3, <1>4, <1>5, <1>6 DEF Next, RequestStep, vars, requestVars

\* For any history: if the data of a history ends a profile request, two runs
\* of one key have written a JSON each.
THEOREM OnlyRerunsBreakProfiles == Spec => []DataErrorsNeedRerun
<1>1. Init => BadDataIsRerun
  BY DEF Init, ProfileInit, BadDataIsRerun
<1>2. (DeliverySafe /\ Reading) /\ BadDataIsRerun /\ [Next]_vars => BadDataIsRerun'
  BY BadDataStep
<1>3. BadDataIsRerun => DataErrorsNeedRerun
  BY DEF BadDataIsRerun, Rerun, DataErrorsNeedRerun
<1> QED BY <1>1, <1>2, <1>3, SafeReading, PTL DEF Spec

-----------------------------------------------------------------------------
(* The embeddings.                                                         *)

Fresh(p, item) == [model |-> ModelOf[p], text |-> item.report]

\* The table keeps a model's vectors under that model; a request has those of
\* its items and has still to save some of them.
CacheByModel == \A k \in DOMAIN cache : cache[k] \in Vector /\ cache[k].model = k[3]
VectorsAreFresh(p) ==
    phase[p] \in {"saving", "analysing", "publishing"} =>
        /\ DOMAIN vectors[p] = Ids(p)
        /\ \A item \in Items(p) : vectors[p][item.id] = Fresh(p, item)
        /\ unsaved[p] \subseteq Ids(p)
Embedded ==
    /\ CacheByModel
    /\ vectors = [p \in Request |-> vectors[p]]
    /\ unsaved = [p \in Request |-> unsaved[p]]
    /\ \A p \in Request : VectorsAreFresh(p)

\* The items of a request are those of what it has loaded.
LEMMA ItemsStay ==
    ASSUME DeliverySafe, Reading, [Next]_vars, NEW p \in Request,
           snapshot'[p] = snapshot[p], reports'[p] = reports[p]
    PROVE  Items(p)' = Items(p) /\ Ids(p)' = Ids(p)
<1>1. \A row \in snapshot[p] : ReportOf(p, row)' = ReportOf(p, row)
  BY DEF ReportOf
<1>2. ASSUME NEW row \in snapshot[p], NEW report \in ReportOf(p, row)
      PROVE  ItemsOf(row, report)' = ItemsOf(row, report)
  <2>1. row \in Run
    BY DEF Reading, ProfileTypeOK
  <2>2. report \in Run /\ pc[report] # "new"
    BY <2>1 DEF Reading, ReportsAreTrue, ReportOf
  <2>3. questions'[report] = questions[report]
    BY <2>2, BegunStays DEF DeliverySafe
  <2> QED BY <2>3 DEF ItemsOf
<1>3. Items(p)' = Items(p)
  BY <1>1, <1>2 DEF Items
<1> QED BY <1>3 DEF Ids

\* The item of an id has the report of every item of that id.
LEMMA ItemOfId ==
    ASSUME DeliverySafe, Reading, NEW p \in Request, NEW item \in Items(p)
    PROVE  ItemOf(p, item.id).report = item.report /\ item.report \in Run
<1> DEFINE chosen == ItemOf(p, item.id)
<1>1. chosen \in Items(p) /\ chosen.id = item.id
  BY DEF ItemOf
<1> HIDE DEF chosen
<1>2. chosen.report = item.report /\ chosen.report \in Run
  BY <1>1, OneReportPerId
<1> QED BY <1>2 DEF chosen

LEMMA VectorsStay ==
    ASSUME DeliverySafe, Reading, [Next]_vars, NEW p \in Request, VectorsAreFresh(p),
           snapshot'[p] = snapshot[p], reports'[p] = reports[p],
           vectors'[p] = vectors[p], unsaved'[p] \subseteq unsaved[p],
           phase'[p] \in {"saving", "analysing", "publishing"} =>
              phase[p] \in {"saving", "analysing", "publishing"}
    PROVE  VectorsAreFresh(p)'
<1>1. Items(p)' = Items(p) /\ Ids(p)' = Ids(p)
  BY ItemsStay
<1>2. CASE phase'[p] \notin {"saving", "analysing", "publishing"}
  BY <1>2 DEF VectorsAreFresh
<1>3. CASE phase'[p] \in {"saving", "analysing", "publishing"}
  <2>1. /\ DOMAIN vectors'[p] = Ids(p)'
        /\ \A item \in Items(p)' : vectors'[p][item.id] = Fresh(p, item)
        /\ unsaved'[p] \subseteq Ids(p)'
    BY <1>1, <1>3 DEF VectorsAreFresh
  <2> QED BY <2>1 DEF VectorsAreFresh, Fresh
<1> QED BY <1>2, <1>3

LEMMA EmbedStep ==
    ASSUME DeliverySafe, Reading, Embedded, [Next]_vars, NEW p \in Request, Embed(p)
    PROVE  VectorsAreFresh(p)'
<1> DEFINE missing == {id \in Ids(p) : ~Reusable(p, id)}
<1>1. CASE phase'[p] \notin {"saving", "analysing", "publishing"}
  BY <1>1 DEF VectorsAreFresh
<1>2. CASE phase'[p] \in {"saving", "analysing", "publishing"}
  <2>1. /\ vectors' = [vectors EXCEPT ![p] =
              [id \in Ids(p) |-> IF id \in missing THEN Embedding(p, id)
                                 ELSE cache[CacheKey(p, id)]]]
        /\ unsaved' = [unsaved EXCEPT ![p] = missing]
    BY <1>2 DEF Embed, Move, Reading, ProfileTypeOK
  <2>2. /\ vectors'[p] = [id \in Ids(p) |-> IF id \in missing THEN Embedding(p, id)
                                            ELSE cache[CacheKey(p, id)]]
        /\ unsaved'[p] = missing
    BY <2>1 DEF Embedded
  <2>3. Items(p)' = Items(p) /\ Ids(p)' = Ids(p)
    BY ItemsStay DEF Embed
  <2>4. ASSUME NEW item \in Items(p) PROVE vectors'[p][item.id] = Fresh(p, item)
    <3>1. /\ item.id \in Ids(p) /\ ItemOf(p, item.id).report = item.report
      BY ItemOfId DEF Ids
    <3>2. CASE item.id \in missing
      BY <2>2, <3>1, <3>2 DEF Embedding, Fresh
    <3>3. CASE item.id \notin missing
      <4> DEFINE k == CacheKey(p, item.id)
      <4>1. k \in DOMAIN cache /\ cache[k].text = item.report
        BY <3>1, <3>3 DEF Reusable
      <4>2. cache[k] \in Vector /\ cache[k].model = ModelOf[p]
        BY <4>1 DEF Embedded, CacheByModel, CacheKey
      <4>3. vectors'[p][item.id] = cache[k]
        BY <2>2, <3>1, <3>3
      <4> HIDE DEF k
      <4> QED BY <4>1, <4>2, <4>3 DEF Vector, Fresh
    <3> QED BY <3>2, <3>3
  <2>5. DOMAIN vectors'[p] = Ids(p) /\ unsaved'[p] \subseteq Ids(p)
    BY <2>2
  <2> QED BY <2>3, <2>4, <2>5 DEF VectorsAreFresh, Fresh
<1> QED BY <1>1, <1>2

LEMMA SaveStep ==
    ASSUME DeliverySafe, Reading, Embedded, [Next]_vars, NEW p \in Request,
           SaveEmbedding(p)
    PROVE  CacheByModel' /\ unsaved'[p] \subseteq unsaved[p]
<1>1. unsaved'[p] \subseteq unsaved[p]
  BY DEF SaveEmbedding, Embedded
<1>2. ASSUME UNCHANGED cache PROVE CacheByModel'
  BY <1>2 DEF Embedded, CacheByModel
<1>3. ASSUME NEW id \in unsaved[p],
             cache' = [k \in DOMAIN cache \cup {CacheKey(p, id)} |->
                          IF k = CacheKey(p, id) THEN vectors[p][id] ELSE cache[k]]
      PROVE  CacheByModel'
  <2>1. /\ id \in Ids(p) /\ \A item \in Items(p) : vectors[p][item.id] = Fresh(p, item)
    BY DEF Embedded, VectorsAreFresh, SaveEmbedding
  <2>2. PICK item \in Items(p) : item.id = id
    BY <2>1 DEF Ids
  <2>3. vectors[p][id] = Fresh(p, item) /\ item.report \in Run
    BY <2>1, <2>2, ItemOfId
  <2>4. vectors[p][id] \in Vector /\ vectors[p][id].model = ModelOf[p]
    BY <2>3 DEF Fresh, Vector
  <2>5. CacheKey(p, id)[3] = ModelOf[p]
    BY DEF CacheKey
  <2> QED BY <1>3, <2>4, <2>5 DEF Embedded, CacheByModel
<1>4. \/ UNCHANGED cache
      \/ \E id \in unsaved[p] :
            cache' = [k \in DOMAIN cache \cup {CacheKey(p, id)} |->
                         IF k = CacheKey(p, id) THEN vectors[p][id] ELSE cache[k]]
  BY DEF SaveEmbedding
<1>5. CacheByModel'
  BY <1>2, <1>3, <1>4, Zenon
<1> QED BY <1>1, <1>5

LEMMA EmbeddedStep ==
    ASSUME DeliverySafe, Reading, Embedded, [Next]_vars
    PROVE  Embedded'
<1>1. ASSUME NEW q \in Request,
             snapshot'[q] = snapshot[q], reports'[q] = reports[q],
             vectors'[q] = vectors[q], unsaved'[q] \subseteq unsaved[q],
             phase'[q] \in {"saving", "analysing", "publishing"} =>
                phase[q] \in {"saving", "analysing", "publishing"}
      PROVE  VectorsAreFresh(q)'
  BY <1>1, VectorsStay DEF Embedded
<1>2. CacheByModel /\ ProfileTypeOK
  BY DEF Embedded, Reading
<1>3. ASSUME UNCHANGED <<phase, snapshot, reports, vectors, unsaved, cache>> PROVE Embedded'
  <2>1. \A q \in Request : VectorsAreFresh(q)'
    BY <1>1, <1>3
  <2> QED BY <1>3, <2>1 DEF Embedded, CacheByModel
<1>4. ASSUME NEW p \in Request, Query(p) \/ LoadReport(p) \/ Pair(p) \/ Analyse(p) \/ Publish(p)
      PROVE  Embedded'
  <2>1. UNCHANGED <<vectors, unsaved, cache>>
    BY <1>4 DEF Query, LoadReport, Pair, Analyse, Publish
  <2>2. ASSUME NEW q \in Request, q # p PROVE VectorsAreFresh(q)'
    <3>1. phase'[q] = phase[q] /\ snapshot'[q] = snapshot[q] /\ reports'[q] = reports[q]
      BY <1>2, <1>4, <2>2
         DEF Query, LoadReport, Pair, Analyse, Publish, Move, ProfileTypeOK
    <3> QED BY <1>1, <2>1, <3>1
  <2>3. VectorsAreFresh(p)'
    <3>1. CASE phase'[p] \notin {"saving", "analysing", "publishing"}
      BY <3>1 DEF VectorsAreFresh
    <3>2. CASE phase'[p] \in {"saving", "analysing", "publishing"}
      <4>1. /\ snapshot'[p] = snapshot[p] /\ reports'[p] = reports[p]
            /\ phase[p] \in {"saving", "analysing", "publishing"}
        BY <1>2, <1>4, <3>2
           DEF Query, LoadReport, Pair, Analyse, Publish, Move, ProfileTypeOK
      <4> QED BY <1>1, <2>1, <4>1
    <3> QED BY <3>1, <3>2
  <2> QED BY <2>1, <2>2, <2>3 DEF Embedded, CacheByModel
<1>5. ASSUME NEW p \in Request, Embed(p) PROVE Embedded'
  <2>1. VectorsAreFresh(p)'
    BY <1>5, EmbedStep
  <2>2. UNCHANGED <<snapshot, reports, cache>>
    BY <1>5 DEF Embed
  <2>3. /\ \A q \in Request : q # p => /\ phase'[q] = phase[q]
                                       /\ vectors'[q] = vectors[q]
                                       /\ unsaved'[q] = unsaved[q]
        /\ vectors' = [q \in Request |-> vectors'[q]]
        /\ unsaved' = [q \in Request |-> unsaved'[q]]
    BY <1>2, <1>5 DEF Embed, Move, ProfileTypeOK, Embedded
  <2>4. \A q \in Request : q # p => VectorsAreFresh(q)'
    BY <1>1, <2>2, <2>3
  <2> QED BY <2>1, <2>2, <2>3, <2>4 DEF Embedded, CacheByModel
<1>6. ASSUME NEW p \in Request, SaveEmbedding(p) PROVE Embedded'
  <2>1. CacheByModel' /\ unsaved'[p] \subseteq unsaved[p]
    BY <1>6, SaveStep
  <2>2. UNCHANGED <<snapshot, reports, vectors>>
    BY <1>6 DEF SaveEmbedding
  <2>3. /\ \A q \in Request : q # p => phase'[q] = phase[q] /\ unsaved'[q] = unsaved[q]
        /\ unsaved' = [q \in Request |-> unsaved'[q]]
        /\ phase[p] = "saving"
    BY <1>2, <1>6 DEF SaveEmbedding, Move, ProfileTypeOK, Embedded
  <2>4. \A q \in Request : VectorsAreFresh(q)'
    BY <1>1, <2>1, <2>2, <2>3
  <2> QED BY <2>1, <2>2, <2>3, <2>4 DEF Embedded
<1> QED BY <1>3, <1>4, <1>5, <1>6 DEF Next, RequestStep, vars, requestVars

\* For any requests and models that share the table: what an analysis compares
\* is of the request's model and of the text its items have.
THEOREM FreshVectors == Spec => []VectorsMatchEvidence
<1>1. Init => Embedded
  BY DEF Init, ProfileInit, Embedded, CacheByModel, VectorsAreFresh
<1>2. (DeliverySafe /\ Reading) /\ Embedded /\ [Next]_vars => Embedded'
  BY EmbeddedStep
<1>3. Embedded => VectorsMatchEvidence
  BY DEF Embedded, VectorsAreFresh, Fresh, VectorsMatchEvidence
<1> QED BY <1>1, <1>2, <1>3, SafeReading, PTL DEF Spec

-----------------------------------------------------------------------------
(* The types of what is left.                                              *)

EmbeddedTypes ==
    /\ \A p \in Request : \A id \in DOMAIN vectors[p] : vectors[p][id] \in Vector
    /\ unsaved \in [Request -> SUBSET EvidenceId]
    /\ published \subseteq Run

LEMMA ItemTypes ==
    ASSUME DeliverySafe, Reading, NEW p \in Request, NEW item \in Items(p)
    PROVE  item.id \in EvidenceId /\ item.report \in Run
<1>1. PICK n \in 1..questions[item.report] :
         item = [row |-> item.row, id |-> <<KeyOf[item.row], n>>, report |-> item.report]
  BY ItemParts
<1>2. item.id = <<KeyOf[item.row], n>>
  BY <1>1
<1>3. item.row \in Run /\ item.report \in Run
  BY OneReportPerId DEF DeliverySafe, DeliveryTypeOK
<1>4. n \in Nat
  <2>1. questions[item.report] \in Nat
    BY <1>3, CountsAreNatural DEF DeliverySafe, DeliveryTypeOK
  <2> QED BY <2>1
<1>5. KeyOf[item.row] \in Key
  BY <1>3
<1> QED BY <1>2, <1>3, <1>4, <1>5 DEF EvidenceId

LEMMA EmbeddedTypesStep ==
    ASSUME DeliverySafe, Reading, Embedded, EmbeddedTypes, [Next]_vars
    PROVE  EmbeddedTypes'
<1>1. ASSUME UNCHANGED <<vectors, unsaved, published>> PROVE EmbeddedTypes'
  BY <1>1 DEF EmbeddedTypes
<1>2. ASSUME NEW p \in Request, Embed(p) PROVE EmbeddedTypes'
  <2> DEFINE missing == {id \in Ids(p) : ~Reusable(p, id)}
             new == [id \in Ids(p) |-> IF id \in missing THEN Embedding(p, id)
                                       ELSE cache[CacheKey(p, id)]]
  <2>1. Ids(p) \subseteq EvidenceId
    BY ItemTypes DEF Ids
  <2>2. ASSUME NEW id \in Ids(p) PROVE new[id] \in Vector
    <3>1. PICK item \in Items(p) : item.id = id
      BY DEF Ids
    <3>2. ItemOf(p, id).report \in Run
      BY <3>1, ItemOfId
    <3>3. CASE id \in missing
      BY <3>2, <3>3 DEF Embedding, Vector
    <3>4. CASE id \notin missing
      BY <3>4 DEF Reusable, Embedded, CacheByModel
    <3> QED BY <3>3, <3>4
  <2>3. /\ vectors' = [vectors EXCEPT ![p] = new] \/ vectors' = vectors
        /\ unsaved' = [unsaved EXCEPT ![p] = missing] \/ unsaved' = unsaved
        /\ published' = published
    BY <1>2 DEF Embed
  <2>4. DOMAIN new = Ids(p) /\ missing \subseteq EvidenceId
    BY <2>1
  <2> HIDE DEF new, missing
  <2>5. \A q \in Request : \A id \in DOMAIN vectors'[q] : vectors'[q][id] \in Vector
    BY <2>2, <2>3, <2>4 DEF EmbeddedTypes, Embedded
  <2>6. unsaved' \in [Request -> SUBSET EvidenceId]
    BY <2>3, <2>4 DEF EmbeddedTypes
  <2> QED BY <2>3, <2>5, <2>6 DEF EmbeddedTypes
<1>3. ASSUME NEW p \in Request, SaveEmbedding(p) PROVE EmbeddedTypes'
  <2>1. \/ unsaved' = unsaved
        \/ \E id \in unsaved[p] : unsaved' = [unsaved EXCEPT ![p] = @ \ {id}]
    BY <1>3 DEF SaveEmbedding
  <2>2. unsaved' \in [Request -> SUBSET EvidenceId]
    BY <2>1 DEF EmbeddedTypes
  <2> QED BY <1>3, <2>2 DEF SaveEmbedding, EmbeddedTypes
<1>4. ASSUME NEW p \in Request, Publish(p) PROVE EmbeddedTypes'
  <2>1. published' \subseteq Run
    BY <1>4, ItemTypes DEF Publish, EmbeddedTypes
  <2> QED BY <1>4, <2>1 DEF Publish, EmbeddedTypes
<1>5. ASSUME NEW p \in Request, Query(p) \/ LoadReport(p) \/ Pair(p) \/ Analyse(p)
      PROVE  EmbeddedTypes'
  BY <1>1, <1>5 DEF Query, LoadReport, Pair, Analyse
<1> QED BY <1>1, <1>2, <1>3, <1>4, <1>5 DEF Next, RequestStep, vars, requestVars

\* For any runs and requests: the state is of its types, and the table holds
\* only vectors of a text some run wrote.
THEOREM TypeCorrect == Spec => []TypeOK
<1>1. Init => Embedded /\ EmbeddedTypes
  BY DEF Init, ProfileInit, Embedded, CacheByModel, VectorsAreFresh, EmbeddedTypes
<1>2. (DeliverySafe /\ Reading) /\ (Embedded /\ EmbeddedTypes) /\ [Next]_vars
      => (Embedded /\ EmbeddedTypes)'
  BY EmbeddedStep, EmbeddedTypesStep
<1>3. DeliverySafe /\ Reading /\ Embedded /\ EmbeddedTypes => TypeOK
  BY DEF DeliverySafe, Reading, ProfileTypeOK, Embedded, CacheByModel, EmbeddedTypes, TypeOK
<1> QED BY <1>1, <1>2, <1>3, SafeReading, PTL DEF Spec
=============================================================================
