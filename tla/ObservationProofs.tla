--------------------------- MODULE ObservationProofs ---------------------------
(***************************************************************************)
(* Theorems about Observation, for every number of REFs and changes: what  *)
(* a read-only command answers with is a namespace that existed while it   *)
(* ran, as long as no REF comes back to a manifest it had left.            *)
(*                                                                         *)
(* The namespace is the one of the moment between the two passes.  A value *)
(* that was seen before that moment and is seen again after it stood at    *)
(* that moment too, unless the REF left it and came back.                  *)
(***************************************************************************)
EXTENDS Observation, TLAPS

Was(r, m) == \E n \in past : n[r] = m
Passed    == {Order[i] : i \in 1 .. next - 1}

(* Restoring what is offered gives manifests. *)
UndoIsTyped == \A c \in undo : \A r \in REF \cap DOMAIN c : c[r].before \in State

(* Before the middle: whatever was seen, or missed, was so at some moment. *)
BeforeMiddle ==
    /\ phase = "listing" => /\ \A r \in unseen \cup (Passed \ names) : Was(r, None)
                            /\ \A r \in REF : captured[r] = None
    /\ phase = "capturing" => /\ \A r \in REF \ names : Was(r, None) /\ captured[r] = None
                              /\ \A r \in Passed \cap names : Was(r, captured[r])

(* After it: `middle' is the namespace of that moment. *)
Between(middle) ==
    /\ \A r \in REF : /\ Was(r, captured[r])
                      /\ refs[r] = captured[r] => middle[r] = captured[r]
    /\ phase = "relisting" =>
          /\ \A r \in unseen : middle[r] = None
          /\ \A r \in Passed \ names : captured[r] = None => middle[r] = None
    /\ phase = "rechecking" =>
          /\ names = {r \in REF : captured[r] # None}
          /\ \A r \in (REF \ names) \cup Passed : middle[r] = captured[r]
    /\ phase = "emitted" => middle = captured

AfterMiddle ==
    ~returned /\ phase \in {"relisting", "rechecking", "emitted"}
    => \E middle \in past : Between(middle)

HistoryFits ==
    /\ refs \in past
    /\ \A r \in REF \ dirs : refs[r] = None
    /\ changes = 0 => past = {refs}
    /\ changes <= 1 => ~returned

IInv == ObservationTypeOK /\ UndoIsTyped /\ HistoryFits /\ BeforeMiddle /\ AfterMiddle

-----------------------------------------------------------------------------
(* The positions.                                                          *)
LEMMA OrderFacts ==
    /\ Len(Order) \in Nat /\ DOMAIN Order = 1 .. Len(Order)
    /\ \A i \in 1 .. Len(Order) : Order[i] \in REF
    /\ \A r \in REF : \E i \in 1 .. Len(Order) : Order[i] = r
  BY OrderAssumption

LEMMA PassedFacts ==
    ASSUME ObservationTypeOK
    PROVE  /\ More => Here \in REF
           /\ More /\ next' = next + 1 => Passed' = Passed \cup {Here}
                                          /\ next' \in 1 .. Len(Order) + 1
           /\ next' = 1 => Passed' = {} /\ next' \in 1 .. Len(Order) + 1
           /\ ~More => Passed = REF
<1>1. next \in 1 .. Len(Order) + 1
  BY DEF ObservationTypeOK
<1>2. ASSUME More PROVE Here \in REF
  BY <1>1, <1>2, OrderFacts DEF More, Here
<1>3. ASSUME More, next' = next + 1
      PROVE  Passed' = Passed \cup {Here} /\ next' \in 1 .. Len(Order) + 1
  <2>1. 1 .. next' - 1 = (1 .. next - 1) \cup {next} /\ next' \in 1 .. Len(Order) + 1
    BY <1>1, <1>3, OrderFacts DEF More
  <2> QED BY <2>1 DEF Passed, Here
<1>4. ASSUME next' = 1 PROVE Passed' = {} /\ next' \in 1 .. Len(Order) + 1
  BY <1>4, OrderFacts DEF Passed
<1>5. ASSUME ~More PROVE Passed = REF
  <2>1. next - 1 = Len(Order)
    BY <1>1, <1>5, OrderFacts DEF More
  <2> QED BY <2>1, OrderFacts DEF Passed
<1> QED BY <1>2, <1>3, <1>4, <1>5

-----------------------------------------------------------------------------
(* The namespace around the command.                                       *)
LEMMA InstalledIsTyped ==
    ASSUME refs \in [REF -> State], NEW c, NEW side,
           \A r \in REF \cap DOMAIN c : c[r][side] \in State
    PROVE  Installed(c, side) \in [REF -> State]
  BY DEF Installed

LEMMA ChangeIsTyped ==
    ASSUME refs \in [REF -> State], UndoIsTyped, NEW after,
           \A r \in DOMAIN after : after[r] \in State, Change(after)
    PROVE  refs' \in [REF -> State] /\ UndoIsTyped'
<1> DEFINE c == [r \in DOMAIN after |-> [before |-> refs[r], after |-> after[r]]]
<1>1. \A r \in REF \cap DOMAIN c : c[r].before \in State /\ c[r]["after"] \in State
  OBVIOUS
<1>2. undo' = undo \cup {c} /\ refs' \in {refs, Installed(c, "after")}
  BY DEF Change
<1>3. refs' \in [REF -> State]
  BY <1>1, <1>2, InstalledIsTyped
<1> HIDE DEF c
<1> QED BY <1>1, <1>2, <1>3 DEF UndoIsTyped

LEMMA NamespaceIsTyped ==
    ASSUME refs \in [REF -> State], UndoIsTyped, Next
    PROVE  refs' \in [REF -> State] /\ UndoIsTyped'
<1> DEFINE Goal == refs' \in [REF -> State] /\ UndoIsTyped'
<1>1. ASSUME NEW r \in REF, Drop(r) PROVE Goal
  <2>1. Change([q \in {r} |-> None]) /\ None \in State
    BY <1>1 DEF Drop, State
  <2> QED BY <2>1, ChangeIsTyped
<1>2. ASSUME NEW r \in REF, NEW s \in Seal, Publish(r, s) PROVE Goal
  <2> DEFINE m == [head |-> s, tags |-> IF refs[r] = None THEN NoTags ELSE refs[r].tags]
  <2>1. m \in State
    BY DEF State, Manifest, Tags, NoTags
  <2>2. Change([q \in {r} |-> m])
    BY <1>2 DEF Publish
  <2> HIDE DEF m
  <2> QED BY <2>1, <2>2, ChangeIsTyped
<1>3. ASSUME NEW r \in REF, NEW t \in TagName, NEW s \in Seal, Bind(r, t, s) PROVE Goal
  <2> DEFINE m == [refs[r] EXCEPT !.tags[t] = s]
  <2>1. refs[r] \in Manifest
    BY <1>3 DEF Bind, State
  <2>2. m = [refs[r] EXCEPT !.tags = [refs[r].tags EXCEPT ![t] = s]]
    BY <2>1 DEF Manifest
  <2>3. [refs[r].tags EXCEPT ![t] = s] \in Tags
    BY <2>1 DEF Manifest, Tags
  <2>4. m \in State
    BY <2>1, <2>2, <2>3 DEF State, Manifest
  <2>5. Change([q \in {r} |-> m])
    BY <1>3 DEF Bind
  <2> HIDE DEF m
  <2> QED BY <2>4, <2>5, ChangeIsTyped
<1>4. ASSUME NEW old \in REF, NEW new \in REF, Rename(old, new) PROVE Goal
  <2>1. Change([q \in {old, new} |-> IF q = old THEN None ELSE refs[old]])
    BY <1>4 DEF Rename
  <2>2. refs[old] \in State /\ None \in State
    BY DEF State
  <2> QED BY <2>1, <2>2, ChangeIsTyped
<1>5. ASSUME NEW c \in undo, Restore(c) PROVE Goal
  <2>1. refs' = Installed(c, "before") /\ undo' = undo
    BY <1>5 DEF Restore
  <2>2. \A r \in REF \cap DOMAIN c : c[r]["before"] \in State
    BY DEF UndoIsTyped
  <2>3. refs' \in [REF -> State]
    BY <2>1, <2>2, InstalledIsTyped
  <2> QED BY <2>1, <2>3 DEF UndoIsTyped
<1> QED BY <1>1, <1>2, <1>3, <1>4, <1>5 DEF Next

LEMMA ChangedKeeps ==
    ASSUME IInv, Changed PROVE IInv'
<1>1. /\ refs \in [REF -> State] /\ dirs \subseteq REF /\ past \subseteq [REF -> State]
      /\ returned \in BOOLEAN /\ changes \in Nat
  BY DEF IInv, ObservationTypeOK
<1>2. refs' \in [REF -> State] /\ UndoIsTyped'
  BY NamespaceIsTyped, <1>1 DEF IInv, Changed
<1>3. /\ UNCHANGED <<phase, next, unseen, names, captured>>
      /\ changes < MaxChanges /\ changes' = changes + 1
      /\ dirs' = dirs \cup {r \in REF : refs'[r] # None}
      /\ past' = past \cup {refs'}
  BY DEF Changed, reader
<1>4. returned' = (returned \/ \E r \in REF, then \in past :
                                   refs'[r] # refs[r] /\ refs'[r] = then[r])
  BY DEF Changed
<1>5. ObservationTypeOK'
  <2>1. returned' \in BOOLEAN
    BY <1>1, <1>4, Zenon
  <2>2. changes' \in 0 .. MaxChanges
    BY <1>1, <1>3, OrderAssumption
  <2>3. past' \subseteq [REF -> State] /\ dirs' \subseteq REF
    BY <1>1, <1>2, <1>3
  <2> QED BY <1>2, <1>3, <2>1, <2>2, <2>3 DEF IInv, ObservationTypeOK
<1>6. HistoryFits'
  <2>1. refs' \in past' /\ \A r \in REF \ dirs' : refs'[r] = None
    BY <1>3
  <2>2. changes' <= 1 => ~returned'
    <3>1. ASSUME changes' <= 1 PROVE past = {refs} /\ ~returned
      BY <1>1, <1>3, <3>1 DEF IInv, HistoryFits
    <3> QED BY <1>4, <3>1
  <2>3. changes' # 0
    BY <1>1, <1>3
  <2> QED BY <2>1, <2>2, <2>3 DEF HistoryFits
<1>7. \A r, m : Was(r, m) => Was(r, m)'
  BY <1>3 DEF Was
<1>8. Passed' = Passed
  BY <1>3 DEF Passed
<1>9. BeforeMiddle'
  BY <1>3, <1>7, <1>8 DEF IInv, BeforeMiddle
<1>10. AfterMiddle'
  <2> SUFFICES ASSUME ~returned', phase' \in {"relisting", "rechecking", "emitted"}
               PROVE  \E middle \in past' : Between(middle)'
    BY DEF AfterMiddle
  <2>1. ~returned /\ \A r \in REF, then \in past : refs'[r] # refs[r] => refs'[r] # then[r]
    BY <1>4
  <2>2. PICK middle \in past : Between(middle)
    BY <1>3, <2>1 DEF IInv, AfterMiddle
  <2>3. ASSUME NEW r \in REF
        PROVE  Was(r, captured[r])' /\ (refs'[r] = captured[r] => middle[r] = captured[r])
    <3>1. Was(r, captured[r]) /\ (refs[r] = captured[r] => middle[r] = captured[r])
      BY <2>2 DEF Between
    <3>2. PICK n \in past : n[r] = captured[r]
      BY <3>1 DEF Was
    <3> QED BY <1>3, <1>7, <2>1, <3>1, <3>2 DEF Was
  <2>4. Between(middle)'
    BY <1>3, <1>8, <2>2, <2>3 DEF Between
  <2> QED BY <1>3, <2>4
<1> QED BY <1>2, <1>5, <1>6, <1>9, <1>10 DEF IInv

-----------------------------------------------------------------------------
(* The steps of the command.                                               *)
Reads == \/ ListOne("listing") \/ Listed \/ CaptureOne \/ Derived
         \/ ListOne("relisting") \/ Relisted \/ RecheckOne \/ Emit

LEMMA Around ==
    ASSUME Reads
    PROVE  UNCHANGED <<refs, undo, dirs, changes, past, returned>>
  BY DEF Reads, ListOne, Listed, CaptureOne, Derived, Relisted, RecheckOne, Emit, Reading, vars

LEMMA ReadsType == ASSUME ObservationTypeOK, Reads PROVE ObservationTypeOK'
<1> DEFINE Rest == /\ refs \in [REF -> State] /\ dirs \subseteq REF
                   /\ changes \in 0 .. MaxChanges
                   /\ past \subseteq [REF -> State] /\ returned \in BOOLEAN
<1>1. Rest'
  BY Around DEF ObservationTypeOK
<1>2. next' \in 1 .. Len(Order) + 1
  <2>1. next' = next \/ next' = 1 \/ (More /\ next' = next + 1)
    BY DEF Reads, ListOne, Listed, CaptureOne, Derived, Relisted, RecheckOne, Emit, Advance,
           Enter, Fail
  <2> QED BY <2>1, PassedFacts DEF ObservationTypeOK
<1>3. phase' \in {"listing", "capturing", "relisting", "rechecking", "emitted", "failed"}
  BY DEF ObservationTypeOK, Reads, ListOne, Listed, CaptureOne, Derived, Relisted, RecheckOne, Emit,
         Advance, Enter, Fail
<1>4. unseen' \subseteq REF /\ names' \subseteq REF
  <2>1. More => Here \in REF
    BY PassedFacts
  <2> QED BY <2>1 DEF ObservationTypeOK, Reads, ListOne, Listed, CaptureOne, Derived, Relisted,
             RecheckOne, Emit, Fail
<1>5. captured' \in [REF -> State]
  <2>1. captured' = captured \/ captured' = [captured EXCEPT ![Here] = refs[Here]]
    BY DEF Reads, ListOne, Listed, CaptureOne, Derived, Relisted, RecheckOne, Emit, Fail
  <2>2. captured \in [REF -> State] /\ \A r \in REF : refs[r] \in State
    BY DEF ObservationTypeOK
  <2> QED BY <2>1, <2>2
<1> QED BY <1>1, <1>2, <1>3, <1>4, <1>5 DEF ObservationTypeOK

LEMMA WasStays == ASSUME Reads PROVE \A r, m : Was(r, m)' = Was(r, m)
  BY Around DEF Was

LEMMA NowWas == ASSUME HistoryFits PROVE \A r \in REF : Was(r, refs[r])
  BY DEF HistoryFits, Was

LEMMA FirstPass ==
    ASSUME IInv, ListOne("listing") \/ Listed \/ CaptureOne
    PROVE  BeforeMiddle' /\ AfterMiddle'
<1>a. ObservationTypeOK /\ HistoryFits /\ BeforeMiddle
  BY DEF IInv
<1>b. Reads
  BY DEF Reads
<1>c. \A r \in REF : Was(r, refs[r])
  BY <1>a, NowWas
<1>d. \A r, m : Was(r, m)' <=> Was(r, m)
  BY <1>b, WasStays
<1>1. CASE phase' = "failed"
  BY <1>1 DEF BeforeMiddle, AfterMiddle
<1>2. CASE ListOne("listing") /\ phase' # "failed"
  <2>1. /\ phase = "listing" /\ phase' = "listing" /\ More /\ next' = next + 1
        /\ UNCHANGED <<unseen, captured>>
        /\ \/ names' = names \cup {Here}
           \/ names' = names /\ (refs[Here] = None \/ Here \in unseen)
    BY <1>2 DEF ListOne, Reading, Advance, Fail
  <2>2. Passed' = Passed \cup {Here} /\ Here \in REF
    BY <1>a, <2>1, PassedFacts
  <2>3. \A r \in unseen \cup (Passed' \ names') : Was(r, None)
    BY <1>a, <1>c, <2>1, <2>2 DEF BeforeMiddle
  <2>4. \A r \in REF : captured'[r] = None
    BY <1>a, <2>1 DEF BeforeMiddle
  <2> QED BY <1>d, <2>1, <2>3, <2>4 DEF BeforeMiddle, AfterMiddle
<1>3. CASE Listed
  <2>1. /\ phase = "listing" /\ phase' = "capturing" /\ ~More /\ next' = 1
        /\ UNCHANGED <<unseen, names, captured>>
    BY <1>3 DEF Listed, Reading, Enter
  <2>2. Passed = REF /\ Passed' = {}
    BY <1>a, <2>1, PassedFacts
  <2> QED BY <1>a, <1>d, <2>1, <2>2 DEF BeforeMiddle, AfterMiddle
<1>4. CASE CaptureOne /\ phase' # "failed"
  <2>1. /\ phase = "capturing" /\ phase' = "capturing" /\ More /\ next' = next + 1
        /\ UNCHANGED <<unseen, names>>
        /\ captured' = IF Here \in names THEN [captured EXCEPT ![Here] = refs[Here]] ELSE captured
    BY <1>4 DEF CaptureOne, Reading, Advance, Fail
  <2>2. Passed' = Passed \cup {Here} /\ Here \in REF
    BY <1>a, <2>1, PassedFacts
  <2>3. captured \in [REF -> State]
    BY <1>a DEF ObservationTypeOK
  <2>4. \A r \in REF \ names' : Was(r, None) /\ captured'[r] = None
    BY <1>a, <2>1, <2>3 DEF BeforeMiddle
  <2>5. \A r \in Passed' \cap names' : Was(r, captured'[r])
    <3>1. names \subseteq REF
      BY <1>a DEF ObservationTypeOK
    <3> QED BY <1>a, <1>c, <2>1, <2>2, <2>3, <3>1 DEF BeforeMiddle
  <2> QED BY <1>d, <2>1, <2>4, <2>5 DEF BeforeMiddle, AfterMiddle
<1> QED BY <1>1, <1>2, <1>3, <1>4

LEMMA MiddleStep ==
    ASSUME IInv, Derived
    PROVE  BeforeMiddle' /\ AfterMiddle'
<1>a. ObservationTypeOK /\ HistoryFits /\ BeforeMiddle /\ Reads
  BY DEF IInv, Reads
<1>1. /\ phase = "capturing" /\ phase' = "relisting" /\ ~More /\ next' = 1
      /\ unseen' = REF \ dirs /\ names' = {} /\ UNCHANGED <<captured, refs, past>>
  BY <1>a, Around DEF Derived, Reading, Enter
<1>2. Passed = REF /\ Passed' = {}
  BY <1>a, <1>1, PassedFacts
<1>3. \A r \in REF : Was(r, captured[r])
  BY <1>a, <1>1, <1>2 DEF BeforeMiddle
<1>4. \A r \in unseen' : refs[r] = None
  BY <1>a, <1>1 DEF HistoryFits
<1>5. refs \in past
  BY <1>a DEF HistoryFits
<1>6. Between(refs)'
  BY <1>1, <1>2, <1>3, <1>4 DEF Between, Was
<1>7. AfterMiddle'
  BY <1>1, <1>5, <1>6 DEF AfterMiddle
<1> QED BY <1>1, <1>7 DEF BeforeMiddle

LEMMA SecondPass ==
    ASSUME IInv, ListOne("relisting") \/ Relisted \/ RecheckOne \/ Emit
    PROVE  BeforeMiddle' /\ AfterMiddle'
<1>a. ObservationTypeOK /\ HistoryFits /\ Reads
  BY DEF IInv, Reads
<1>b. UNCHANGED <<refs, past, returned, captured>>
  BY <1>a, Around DEF ListOne, Relisted, RecheckOne, Emit, Fail
<1>c. phase \in {"relisting", "rechecking"}
      /\ phase' \in {"relisting", "rechecking", "emitted", "failed"}
  BY DEF ListOne, Relisted, RecheckOne, Emit, Reading, Advance, Enter, Fail
<1>1. BeforeMiddle'
  BY <1>c DEF BeforeMiddle
<1>2. ASSUME ~returned, phase' # "failed", NEW middle \in past, Between(middle)
      PROVE  Between(middle)'
  <2>0. \A r \in REF : /\ Was(r, captured[r])'
                       /\ refs'[r] = captured'[r] => middle[r] = captured'[r]
    BY <1>a, <1>b, <1>2, WasStays DEF Between
  <2>1. CASE ListOne("relisting")
    <3>1. /\ phase = "relisting" /\ phase' = "relisting" /\ More /\ next' = next + 1
          /\ UNCHANGED unseen
          /\ \/ names' = names \cup {Here}
             \/ names' = names /\ (refs[Here] = None \/ Here \in unseen)
      BY <1>2, <2>1 DEF ListOne, Reading, Advance, Fail
    <3>2. Passed' = Passed \cup {Here} /\ Here \in REF
      BY <1>a, <3>1, PassedFacts
    <3>3. \A r \in Passed' \ names' : captured[r] = None => middle[r] = None
      BY <1>2, <3>1, <3>2 DEF Between
    <3> QED BY <1>2, <1>b, <2>0, <3>1, <3>3 DEF Between
  <2>2. CASE Relisted
    <3>1. /\ phase = "relisting" /\ phase' = "rechecking" /\ ~More /\ next' = 1
          /\ names = {r \in REF : captured[r] # None} /\ names' = names
      BY <1>2, <2>2 DEF Relisted, Reading, Enter, Fail
    <3>2. Passed = REF /\ Passed' = {}
      BY <1>a, <3>1, PassedFacts
    <3>3. \A r \in REF \ names : middle[r] = captured[r]
      BY <1>2, <3>1, <3>2 DEF Between
    <3> QED BY <1>b, <2>0, <3>1, <3>2, <3>3 DEF Between
  <2>3. CASE RecheckOne
    <3>1. /\ phase = "rechecking" /\ phase' = "rechecking" /\ More /\ next' = next + 1
          /\ UNCHANGED names /\ (Here \in names => refs[Here] = captured[Here])
      BY <1>2, <2>3 DEF RecheckOne, Reading, Advance, Fail
    <3>2. Passed' = Passed \cup {Here} /\ Here \in REF
      BY <1>a, <3>1, PassedFacts
    <3>3. middle[Here] = captured[Here]
      BY <1>2, <3>1, <3>2 DEF Between
    <3> QED BY <1>2, <1>b, <2>0, <3>1, <3>2, <3>3 DEF Between
  <2>4. CASE Emit
    <3>1. phase = "rechecking" /\ phase' = "emitted" /\ ~More
      BY <2>4 DEF Emit, Reading
    <3>2. \A r \in REF : middle[r] = captured[r]
      BY <1>a, <1>2, <3>1, PassedFacts DEF Between
    <3>3. middle = captured
      BY <1>a, <3>2 DEF ObservationTypeOK
    <3> QED BY <1>b, <2>0, <3>1, <3>3 DEF Between
  <2> QED BY <2>1, <2>2, <2>3, <2>4
<1>3. AfterMiddle'
  BY <1>b, <1>c, <1>2 DEF IInv, AfterMiddle
<1> QED BY <1>1, <1>3

-----------------------------------------------------------------------------
(* The theorems.                                                           *)
LEMMA InitInv == ObservationInit => IInv
<1> SUFFICES ASSUME ObservationInit PROVE IInv
  OBVIOUS
<1>1. /\ refs \in [REF -> State] /\ undo = {} /\ past = {refs} /\ returned = FALSE /\ changes = 0
      /\ phase = "listing" /\ next = 1 /\ names = {} /\ captured = [r \in REF |-> None]
      /\ dirs = {r \in REF : refs[r] # None} /\ unseen = REF \ dirs
  BY DEF ObservationInit, Init
<1>2. captured \in [REF -> State]
  BY <1>1 DEF State
<1>3. next \in 1 .. Len(Order) + 1 /\ changes \in 0 .. MaxChanges /\ Passed = {}
  BY <1>1, OrderFacts, OrderAssumption DEF Passed
<1>4. ObservationTypeOK
  BY <1>1, <1>2, <1>3 DEF ObservationTypeOK
<1>5. UndoIsTyped /\ HistoryFits
  BY <1>1 DEF UndoIsTyped, HistoryFits
<1>6. BeforeMiddle /\ AfterMiddle
  BY <1>1, <1>3 DEF BeforeMiddle, AfterMiddle, Was
<1> QED BY <1>4, <1>5, <1>6 DEF IInv

LEMMA NextInv == IInv /\ [ObservationNext]_all => IInv'
<1> SUFFICES ASSUME IInv, [ObservationNext]_all PROVE IInv'
  OBVIOUS
<1>1. CASE Changed
  BY <1>1, ChangedKeeps
<1>2. CASE Reads
  <2>1. ObservationTypeOK'
    BY <1>2, ReadsType DEF IInv
  <2>2. UndoIsTyped' /\ HistoryFits'
    BY <1>2, Around DEF IInv, UndoIsTyped, HistoryFits
  <2>3. BeforeMiddle' /\ AfterMiddle'
    BY <1>2, FirstPass, MiddleStep, SecondPass DEF Reads
  <2> QED BY <2>1, <2>2, <2>3 DEF IInv
<1>3. CASE UNCHANGED all
  <2>1. UNCHANGED <<refs, undo, phase, next, dirs, unseen, names, captured, changes, past, returned>>
    BY <1>3 DEF all, vars, reader
  <2> QED BY <2>1 DEF IInv, ObservationTypeOK, UndoIsTyped, HistoryFits, BeforeMiddle, AfterMiddle,
                      Between, Was, Passed
<1> QED BY <1>1, <1>2, <1>3 DEF ObservationNext, Reads

LEMMA Invariant == ObservationSpec => []IInv
<1> QED BY InitInv, NextInv, PTL DEF ObservationSpec

(* Every state keeps its type (Observation!ObservationTypeOK). *)
THEOREM ReaderTypeCorrect == ObservationSpec => []ObservationTypeOK
<1>1. IInv => ObservationTypeOK
  BY DEF IInv
<1> QED BY <1>1, Invariant, PTL

(* A read-only command that answers does so with a namespace that existed  *)
(* while it ran, unless some REF came back to a manifest it had left       *)
(* (observation.go revalidateHeads).                                       *)
THEOREM AnswersAreCoherent == ObservationSpec => []CoherentUnlessReturned
<1>1. IInv => CoherentUnlessReturned
  BY DEF IInv, AfterMiddle, Between, CoherentUnlessReturned, Coherent
<1> QED BY <1>1, Invariant, PTL

(* One concurrent command never deceives a reader: with a single change no *)
(* REF can come back (observation.go revalidateHeads).                     *)
THEOREM OneChangeNeverDeceives == ObservationSpec => []OneChangeIsSeen
<1>1. IInv => OneChangeIsSeen
  BY DEF IInv, HistoryFits, AfterMiddle, Between, OneChangeIsSeen, Coherent
<1> QED BY <1>1, Invariant, PTL
=============================================================================
