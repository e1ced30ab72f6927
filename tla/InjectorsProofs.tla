-------------------------- MODULE InjectorsProofs --------------------------
(***************************************************************************)
(* What the injectors and the sweep promise, for every target, any number  *)
(* of injections, failures and edits.                                      *)
(***************************************************************************)
EXTENDS Clean, TLAPS

-----------------------------------------------------------------------------
(* What an object, a backup and a call may be at any moment *)

CRDs      == {"FieldMutation", "PathMutation"}
Webhooks  == {"ValidatingWebhook", "MutatingWebhook"}
Diffed    == {"ScaleZero", "CrashLoop", "ImageCorrupt"}
\* The types whose clean-up closure is not their Revert.
ByClosure == {"FinalizerBlock", "ClientFault", "OwnerRefOrphan", "LabelOverwrite",
              "LabelDelete"} \cup CRDs
\* The types whose annotation holds the value itself.
Valued    == InPlace \ {"SecretDrift", "FinalizerBlock"}

\* What the annotation of a target of type k holds.
Marks(k) ==
    {NoMark} \cup
    (IF k \in InPlace THEN {Corrupt} ELSE {}) \cup
    (IF k \in Valued THEN Values ELSE {}) \cup
    (IF k = "SecretDrift" THEN {Ref} ELSE {}) \cup
    (IF k = "FinalizerBlock" THEN {Scalar("fault")} ELSE {}) \cup
    (IF k = "ClientFault" THEN {Created} ELSE {})

\* Genuine, for the values L that others gave the field.
Keys(L) == UNION {w.s : w \in L}
GenuineIn(L, v) == \/ v \in L
                   \/ v.t = "map" /\ v.s # {} /\ v.s \subseteq Keys(L)
Owners(L, v) == v.t = "map" /\ v.s \subseteq Keys(L)

\* The types that never take a fault for the original: what their targets hold
\* whatever has happened.
Guard(k, L, o) ==
    /\ k \in Webhooks => /\ o.mark = NoMark => GenuineIn(L, o.val)
                         /\ o.mark \in Values => GenuineIn(L, o.mark)
    /\ k = "FinalizerBlock" => o.val.t = "map" /\ Map(o.val.s \ {"fault"}) \in L
    /\ k = "OwnerRefOrphan" => Owners(L, o.val) /\ (o.mark \in Values => Owners(L, o.mark))
    /\ k = "LabelDelete" => /\ o.val \in L \cup {Absent}
                            /\ o.mark \in Values => o.mark \in L \cup {Absent}
Fit(k, L, o) == o \in Objects /\ (o.here => o.mark \in Marks(k) /\ Guard(k, L, o))

\* As long as nothing has happened that cannot be undone: a target without an
\* annotation has no fault, and an annotation holds the original.
Whole(k, L, v) == IF k = "FinalizerBlock" THEN "fault" \notin v.s ELSE GenuineIn(L, v)
Sound(k, L, o) ==
    o.here =>
        /\ k \in InPlace /\ o.mark = NoMark => o.label # "chaos" /\ Whole(k, L, o.val)
        /\ k \in Valued /\ o.mark \in Values => GenuineIn(L, o.mark)
        /\ k \in Diffed => o.label # "chaos"
        /\ k \in Webhooks => o.selected

Foreign == side.here /\ ~side.managed
OwnBackup == side.here /\ side.managed
SideKnown ==
    /\ Foreign => Is(Deleting) /\ side.val = Absent
    /\ taken => Is(Deleting) /\ (~obj.here \/ obj.term)
\* What the backup owes an object o that stands in place of the target.
SideFits(o) ==
    /\ Is({"SecretDrift"}) /\ o.here /\ o.mark = Ref /\ ~GenuineIn(legit, o.val) => side.here
    /\ Is(Deleting) /\ o.here => GenuineIn(legit, o.val) \/ Foreign
SideSound ==
    /\ SideFits(obj)
    /\ Is({"SecretDrift"}) /\ side.here => GenuineIn(legit, side.val)
    /\ Is(Deleting) /\ OwnBackup => GenuineIn(legit, side.val)
    /\ taken => OwnBackup

ClosureKnown == closure.set /\ Is(InPlace \ {"ClientFault"}) => closure.was.here
ClosureSound ==
    closure.set /\ closure.was.here /\ Is(InPlace \ {"FinalizerBlock"}) =>
        GenuineIn(legit, closure.was.val)

-----------------------------------------------------------------------------
(* What an operation knows where it stands, and what it may rely on *)

Places == {"idle", "get", "probe", "save", "write", "create", "delete", "undo", "look",
           "refetch", "restore", "drop", "unmark", "ok", "error"}
Ends == {"idle", "get", "ok", "error"}

KnowsInPlace ==
    /\ call.at \notin Ends \cup {"create"} => call.got.here
    /\ call.at = "create" => ~call.got.here
    /\ call.op \in Undo /\ call.at \notin Ends /\ (call.op = "revert" \/ ~Is(ByClosure)) =>
          call.got.mark \notin {NoMark, Corrupt}
    /\ call.op = "cleanup" /\ call.at = "write" /\ Is({"ClientFault"}) => closure.was.here
    /\ call.op = "inject" /\ call.at = "ok" /\ ~Is({"ClientFault"}) => call.got.here
    /\ call.op = "inject" /\ call.at = "write" =>
          /\ Is(Webhooks) => call.got.mark = NoMark
          /\ Is({"FinalizerBlock"}) => "fault" \notin call.got.val.s
          /\ Is({"OwnerRefOrphan"}) => call.got.val.s # {}
          /\ Is({"LabelDelete"}) => call.got.val # Absent
ReliesInPlace ==
    /\ call.op \in Undo /\ call.at = "write" /\ ~Is({"FinalizerBlock"}) /\ obj.here =>
          obj.val = call.got.val \/ GenuineIn(legit, obj.val)
    /\ Is(CRDs) /\ obj.here =>
          /\ call.at \in {"refetch", "restore"} => obj.val = Absent \/ GenuineIn(legit, obj.val)
          /\ call.at = "unmark" => GenuineIn(legit, obj.val)
    /\ Is({"SecretDrift"}) =>
          /\ call.at = "restore" => GenuineIn(legit, call.copy)
          /\ call.at = "drop" /\ obj.here => GenuineIn(legit, obj.val)
          /\ call.at = "unmark" /\ ~call.stale /\ obj.here => GenuineIn(legit, obj.val)
          /\ call.op = "inject" /\ call.at = "write" => side.here
    /\ call.op = "inject" /\ call.at = "ok" /\ ~Is({"FinalizerBlock"}) /\ call.got.here =>
          GenuineIn(legit, call.got.val)

KnowsDeleting ==
    /\ call.op = "inject" /\ call.at \in {"probe", "save"} => call.got.here
    /\ call.op = "inject" /\ call.at \in {"save", "delete", "undo"} => ~Foreign
    /\ Is({"SecretDeletion"}) /\ call.op \in Undo /\ call.at \in {"create", "drop"} => ~Foreign
    /\ Is({"NamespaceDeletion"}) /\ call.op \in Undo /\ ~call.failed =>
          /\ call.at = "create" /\ taken => ~obj.here
          /\ call.at = "drop" => ~taken
ReliesDeleting ==
    /\ call.op = "inject" /\ call.at = "probe" => GenuineIn(legit, call.got.val) \/ Foreign
    /\ call.op = "inject" /\ call.at = "save" => GenuineIn(legit, call.got.val)
    /\ call.op = "inject" /\ call.at = "delete" => OwnBackup
    /\ call.op \in Undo /\ call.at \in {"look", "create"} => GenuineIn(legit, call.copy) \/ Foreign

KnowsParts ==
    /\ call.at = "create" => call.part \in Parts
    /\ call.at = "drop" => /\ call.part \in Parts
                           /\ ~call.failed => \A p \in parts : Place(p) <= Place(call.part)
    /\ call.at = "ok" /\ call.op \in Undo => parts = {}

Knows ==
    /\ call.op = "none" <=> call.at = "idle"
    /\ call.op = "cleanup" => closure.set
    /\ call.at \in {"probe", "save", "write"} /\ ~call.stale => obj = call.got
    /\ Is(InPlace) => KnowsInPlace
    /\ Is(Deleting) => KnowsDeleting
    /\ Is({"PDBBlock", "QuotaExhaustion"}) /\ call.at = "write" => Ours(call.got)
    /\ Is({"WebhookLatency"}) => KnowsParts
    /\ ~Is({"WebhookLatency"}) => parts = {}
Relies ==
    /\ Is(InPlace) => ReliesInPlace
    /\ Is(Deleting) => ReliesDeleting

\* Everything that holds whatever has happened, and what holds without gaps.
Types ==
    /\ TypeOK /\ edits \in Nat /\ legit \subseteq Values
Fits == /\ Fit(case.kind, legit, obj)
        /\ Fit(case.kind, legit, call.got)
        /\ Fit(case.kind, legit, closure.was)
Excused ==
    /\ Is(Guarded) => "doubled" \notin gaps
    /\ Is({"NamespaceDeletion"}) => "terminating" \notin gaps
Base == Types /\ Fits /\ SideKnown /\ ClosureKnown /\ Excused
SureBase == /\ Sound(case.kind, legit, obj) /\ Sound(case.kind, legit, call.got)
            /\ SideSound /\ ClosureSound
OpInv == Base /\ Knows /\ (gaps = {} => SureBase /\ Relies)

-----------------------------------------------------------------------------
(* Values and objects *)

LEMMA ValueFacts ==
  /\ Absent \in Values
  /\ NoMark \notin Values /\ Created \notin Values /\ Corrupt \notin Values /\ Ref \notin Values
  /\ NoMark # Created /\ NoMark # Ref /\ NoMark # Corrupt
  /\ Created # Ref /\ Created # Corrupt /\ Ref # Corrupt
  /\ Scalar("fault") \in Values
  BY DEF Absent, NoMark, Created, Corrupt, Ref, Scalar, Values, Atoms

LEMMA MapValue ==
  ASSUME NEW S, S \subseteq Atoms
  PROVE  Map(S) \in Values /\ Map(S).t = "map" /\ Map(S).s = S /\ Map(S) # Absent
  BY DEF Map, Values, Absent

LEMMA ValueFields ==
  ASSUME NEW v \in Values
  PROVE  v.s \subseteq Atoms
  BY DEF Values, Absent

LEMMA MergeFacts ==
  ASSUME NEW v \in Values, NEW w \in Values
  PROVE  MergeValue(v, w) \in Values
<1>1. CASE v.t = "map" /\ w.t = "map"
  BY <1>1, MapValue, ValueFields DEF MergeValue
<1> QED BY <1>1 DEF MergeValue

LEMMA GenuineIs ==
  ASSUME NEW v
  PROVE  Genuine(v) <=> GenuineIn(legit, v)
  BY DEF Genuine, GenuineIn, Keys

LEMMA GenuineMore ==
  ASSUME NEW L, NEW M, L \subseteq M, NEW v
  PROVE  /\ GenuineIn(L, v) => GenuineIn(M, v)
         /\ Owners(L, v) => Owners(M, v)
<1>1. Keys(L) \subseteq Keys(M)
  BY DEF Keys
<1> QED BY <1>1 DEF GenuineIn, Owners

LEMMA WithFacts ==
  ASSUME NEW o \in Objects, NEW v \in Values
  PROVE  /\ With(o, v) \in Objects
         /\ With(o, v).val = v /\ With(o, v).mark = o.mark /\ With(o, v).here = o.here
         /\ With(o, v).label = o.label /\ With(o, v).selected = o.selected
         /\ With(o, v).term = o.term
  BY DEF With, Objects

LEMMA ApplyFacts ==
  ASSUME NEW o \in Objects, NEW m \in Values \cup {NoMark, Created, Ref, Corrupt}
  PROVE  LET n == ApplyChaosMetadata(o, m)
         IN  /\ n \in Objects /\ n.val = o.val /\ n.mark = m /\ n.here = o.here
             /\ n.label = "chaos" /\ n.selected = o.selected /\ n.term = o.term
  BY DEF ApplyChaosMetadata, Objects

LEMMA RemoveFacts ==
  ASSUME NEW o \in Objects
  PROVE  LET n == RemoveChaosMetadata(o)
         IN  /\ n \in Objects /\ n.val = o.val /\ n.mark = NoMark /\ n.here = o.here
             /\ n.label = "none" /\ n.selected = o.selected /\ n.term = o.term
  BY DEF RemoveChaosMetadata, Objects

LEMMA FaultyFacts ==
  ASSUME NEW o \in Objects, NEW v \in Values,
         NEW m, m \in Values \/ m \in {NoMark, Created, Ref, Corrupt}
  PROVE  LET n == ApplyChaosMetadata(With(o, v), m)
         IN  /\ n \in Objects /\ n.val = v /\ n.mark = m /\ n.here = o.here
             /\ n.label = "chaos" /\ n.selected = o.selected /\ n.term = o.term
<1> DEFINE w == With(o, v)
<1>1. /\ w \in Objects /\ w.val = v /\ w.here = o.here /\ w.selected = o.selected
      /\ w.term = o.term
  BY WithFacts
<1>2. m \in Values \cup {NoMark, Created, Ref, Corrupt}
  OBVIOUS
<1> HIDE DEF w
<1>3. LET n == ApplyChaosMetadata(w, m)
      IN  /\ n \in Objects /\ n.val = v /\ n.mark = m /\ n.here = o.here
          /\ n.label = "chaos" /\ n.selected = o.selected /\ n.term = o.term
  BY <1>1, <1>2, ApplyFacts
<1> QED BY <1>3 DEF w

LEMMA RestoredFacts ==
  ASSUME NEW o \in Objects, NEW v \in Values
  PROVE  LET n == RemoveChaosMetadata(With(o, v))
         IN  /\ n \in Objects /\ n.val = v /\ n.mark = NoMark /\ n.here = o.here
             /\ n.label = "none" /\ n.selected = o.selected /\ n.term = o.term
<1> DEFINE w == With(o, v)
<1>1. /\ w \in Objects /\ w.val = v /\ w.here = o.here /\ w.selected = o.selected
      /\ w.term = o.term
  BY WithFacts
<1> HIDE DEF w
<1>2. LET n == RemoveChaosMetadata(w)
      IN  /\ n \in Objects /\ n.val = v /\ n.mark = NoMark /\ n.here = o.here
          /\ n.label = "none" /\ n.selected = o.selected /\ n.term = o.term
  BY <1>1, RemoveFacts
<1> QED BY <1>2 DEF w

LEMMA GoneFacts ==
  /\ Gone \in Objects /\ ~Gone.here /\ Gone.val = Absent /\ Gone.mark = NoMark
  /\ Gone.label = "none" /\ ~Gone.term /\ ~Gone.selected
  BY ValueFacts DEF Gone, Objects

-----------------------------------------------------------------------------
(* API calls *)

\* What every step of an operation keeps.
Kept == call'.op = call.op /\ call'.part = call.part /\ call'.failed = call.failed
Held == Kept /\ call'.got = call.got /\ call'.copy = call.copy /\ call'.stale = call.stale

LEMMA GetStep ==
  ASSUME call \in Calls, obj \in Objects, NEW ops, NEW STATE next, next \in Places, Get(ops, next)
  PROVE  /\ Stands(ops, "get") /\ call' \in Calls /\ Kept /\ call'.copy = call.copy
         /\ \/ call'.at = next /\ call'.got = obj /\ call'.stale = FALSE
            \/ call'.at = "error" /\ Held
         /\ UNCHANGED <<case, obj, side, parts, closure, legit, taken, gaps, edits>>
  BY DEF Get, Goto, Calls, Kept, Held, Places, history

LEMMA LookStep ==
  ASSUME call \in Calls, NEW ops, NEW at, NEW STATE next, next \in Places, Look(ops, at, next)
  PROVE  /\ Stands(ops, at) /\ call' \in Calls /\ Held /\ call'.at \in {next, "error"}
         /\ UNCHANGED <<case, obj, side, parts, closure, legit, taken, gaps, edits>>
  BY DEF Look, Goto, Calls, Kept, Held, Places, history

LEMMA WriteStep ==
  ASSUME call \in Calls, NEW ops, NEW at, NEW STATE accepted, NEW STATE new, NEW STATE next,
         NEW STATE refused, next \in Places, refused \in Places,
         Write(ops, at, accepted, new, next, refused)
  PROVE  /\ Stands(ops, at) /\ call' \in Calls /\ Held
         /\ \/ /\ accepted /\ obj' = new /\ call'.at \in {next, "error"}
               /\ gaps' = gaps \cup Doubles \cup Nulls(new)
            \/ ~accepted /\ call'.at = refused /\ obj' = obj /\ gaps' = gaps
            \/ call'.at = "error" /\ obj' = obj /\ gaps' = gaps
         /\ taken' = (taken /\ (~obj'.here \/ obj'.term))
         /\ UNCHANGED <<case, side, parts, closure, legit, edits>>
  BY DEF Write, Goto, Calls, Kept, Held, Places

LEMMA DeleteStep ==
  ASSUME call \in Calls, NEW ops, NEW at, NEW STATE next, NEW STATE missing, NEW STATE err,
         next \in Places, missing \in Places, err \in Places,
         DeleteTarget(ops, at, next, missing, err)
  PROVE  /\ Stands(ops, at) /\ call' \in Calls /\ Held
         /\ \/ obj' = Deleted(obj) /\ call'.at = IF obj.here THEN next ELSE missing
            \/ obj' \in {obj, Deleted(obj)} /\ call'.at = err
         /\ taken' = (taken \/ (Is(Deleting) /\ obj' # obj))
         /\ UNCHANGED <<case, side, parts, closure, legit, gaps, edits>>
  BY DEF DeleteTarget, Goto, Calls, Kept, Held, Places

LEMMA WriteSideStep ==
  ASSUME call \in Calls, NEW ops, NEW at, NEW STATE new, NEW STATE next, NEW STATE err,
         next \in Places, err \in Places, WriteSide(ops, at, new, next, err)
  PROVE  /\ Stands(ops, at) /\ call' \in Calls /\ Held
         /\ \/ side' = new /\ call'.at = next
            \/ side' \in {side, new} /\ call'.at = err
         /\ gaps' = IF side' = side THEN gaps ELSE gaps \cup Doubles
         /\ UNCHANGED <<case, obj, parts, closure, legit, taken, edits>>
  BY DEF WriteSide, Goto, Calls, Kept, Held, Places

LEMMA ReadSideStep ==
  ASSUME call \in Calls, side.val \in Values, NEW ops, NEW at, NEW STATE next, next \in Places,
         ReadSide(ops, at, next)
  PROVE  /\ Stands(ops, at) /\ call' \in Calls /\ Kept
         /\ call'.got = call.got /\ call'.stale = call.stale
         /\ \/ call'.at = next /\ call'.copy = side.val
            \/ call'.at = "error" /\ call'.copy = call.copy
         /\ UNCHANGED <<case, obj, side, parts, closure, legit, taken, gaps, edits>>
  BY DEF ReadSide, Goto, Calls, Kept, Held, Places, history

-----------------------------------------------------------------------------
(* What the API calls keep of the invariant *)

LEMMA Basics ==
  ASSUME Base
  PROVE  /\ call \in Calls /\ obj \in Objects /\ call.got \in Objects /\ closure.was \in Objects
         /\ side.val \in Values /\ legit \subseteq Values /\ case \in Cases /\ case.kind \in Kinds
         /\ case.orig \in Values /\ case.edit \in Values /\ case.fault \in Values
  BY CasesAssumption DEF Base, Types, TypeOK, Calls, Targets, Fits, Fit

\* Where only the call has moved on.
LEMMA CallKeeps ==
  ASSUME Base, call' \in Calls, call'.got \in {call.got, obj},
         UNCHANGED <<case, obj, side, parts, closure, legit, taken, gaps, edits>>
  PROVE  /\ Base'
         /\ SureBase => SureBase'
<1>1. Fits'
  BY DEF Base, Fits
<1>2. Base'
  BY <1>1 DEF Base, Types, TypeOK, SideKnown, Foreign, ClosureKnown, Excused, Is
<1>3. ASSUME SureBase PROVE SureBase'
  BY <1>3 DEF SureBase, SideSound, SideFits, Foreign, OwnBackup, ClosureSound, Is
<1> QED BY <1>2, <1>3

LEMMA GetKeeps ==
  ASSUME OpInv, NEW ops, NEW STATE next, next \in Places, Get(ops, next)
  PROVE  /\ Base' /\ gaps' = gaps
         /\ gaps' = {} => SureBase'
<1>1. Base
  BY DEF OpInv
<1>2. /\ call' \in Calls /\ call'.got \in {call.got, obj}
      /\ UNCHANGED <<case, obj, side, parts, closure, legit, taken, gaps, edits>>
  BY <1>1, Basics, GetStep DEF Held
<1> QED BY <1>1, <1>2, CallKeeps DEF OpInv

LEMMA LookKeeps ==
  ASSUME OpInv, NEW ops, NEW at, NEW STATE next, next \in Places, Look(ops, at, next)
  PROVE  /\ Base' /\ gaps' = gaps
         /\ gaps' = {} => SureBase'
<1>1. Base
  BY DEF OpInv
<1>2. /\ call' \in Calls /\ call'.got \in {call.got, obj}
      /\ UNCHANGED <<case, obj, side, parts, closure, legit, taken, gaps, edits>>
  BY <1>1, Basics, LookStep DEF Held
<1> QED BY <1>1, <1>2, CallKeeps DEF OpInv

LEMMA ReadSideKeeps ==
  ASSUME OpInv, NEW ops, NEW at, NEW STATE next, next \in Places, ReadSide(ops, at, next)
  PROVE  /\ Base' /\ gaps' = gaps
         /\ gaps' = {} => SureBase'
<1>1. Base
  BY DEF OpInv
<1>2. /\ call' \in Calls /\ call'.got \in {call.got, obj}
      /\ UNCHANGED <<case, obj, side, parts, closure, legit, taken, gaps, edits>>
  BY <1>1, Basics, ReadSideStep
<1> QED BY <1>1, <1>2, CallKeeps DEF OpInv

\* A write puts an object that fits in the place of the target.
LEMMA WriteKeeps ==
  ASSUME OpInv, NEW ops, NEW at, NEW STATE accepted, NEW STATE new, NEW STATE next,
         NEW STATE refused, next \in Places, refused \in Places,
         Write(ops, at, accepted, new, next, refused),
         accepted => /\ Fit(case.kind, legit, new)
                     /\ Is(Guarded) => Doubles = {},
         accepted /\ gaps = {} /\ Doubles = {} /\ Nulls(new) = {} =>
             Sound(case.kind, legit, new) /\ SideFits(new)
  PROVE  /\ Base'
         /\ gaps' = {} => SureBase'
         /\ gaps' = {} => gaps = {} /\ (obj' = obj \/ (obj' = new /\ Doubles = {} /\ Nulls(new) = {}))
<1>1. Base
  BY DEF OpInv
<1>2. /\ call' \in Calls /\ Held
      /\ \/ accepted /\ obj' = new /\ gaps' = gaps \cup Doubles \cup Nulls(new)
         \/ obj' = obj /\ gaps' = gaps
      /\ taken' = (taken /\ (~obj'.here \/ obj'.term))
      /\ UNCHANGED <<case, side, parts, closure, legit, edits>>
  BY <1>1, Basics, WriteStep
<1>3. Fits'
  BY <1>1, <1>2 DEF Base, Fits, Held
<1>4. gaps' = gaps \/ (accepted /\ gaps' = gaps \cup Doubles \cup Nulls(new))
  BY <1>2
<1>5. /\ Doubles \subseteq {"doubled"} /\ Nulls(new) \subseteq {"nulled"}
  BY DEF Doubles, Nulls
<1>6. Types'
  <2>1. gaps' \subseteq {"doubled", "lostDelete", "terminating", "unseen", "foreignBackup",
                         "relabelled", "nulled", "stripped", "overlap"}
    BY <1>1, <1>4, <1>5 DEF Base, Types, TypeOK
  <2>2. obj' \in Objects
    BY <1>1, <1>2, Basics DEF Fit
  <2>3. taken' \in BOOLEAN
    BY <1>1, <1>2 DEF Base, Types, TypeOK
  <2> QED BY <1>1, <1>2, <2>1, <2>2, <2>3 DEF Base, Types, TypeOK
<1>7. SideKnown' /\ ClosureKnown'
  BY <1>1, <1>2 DEF Base, SideKnown, ClosureKnown, Foreign, Is
<1>8. Excused'
  BY <1>1, <1>2, <1>4, <1>5 DEF Base, Excused, Is
<1>9. gaps' = {} => gaps = {} /\ (obj' = obj \/ (obj' = new /\ Doubles = {} /\ Nulls(new) = {}))
  BY <1>2
<1>10. ASSUME gaps' = {} PROVE SureBase'
  <2>1. SureBase
    BY <1>9, <1>10 DEF OpInv
  <2>2. Sound(case.kind, legit, obj') /\ SideFits(obj')
    BY <2>1, <1>9, <1>10, <1>2 DEF SureBase, SideSound
  <2>3. SideFits(obj)'
    BY <2>2, <1>2 DEF SideFits, Foreign, Is
  <2> QED BY <2>1, <2>2, <2>3, <1>2 DEF SureBase, SideSound, OwnBackup, ClosureSound, Held, Is
<1> QED BY <1>3, <1>6, <1>7, <1>8, <1>9, <1>10 DEF Base

LEMMA DeletedFacts ==
  ASSUME Base
  PROVE  /\ Deleted(obj) \in Objects
         /\ Deleted(obj).here =>
               /\ Is(Deleting) /\ obj.here /\ Deleted(obj).term /\ Deleted(obj).val = obj.val
               /\ Deleted(obj).mark = obj.mark /\ Deleted(obj).label = obj.label
               /\ Deleted(obj).selected = obj.selected
         /\ Fit(case.kind, legit, Deleted(obj))
         /\ Sound(case.kind, legit, obj) => Sound(case.kind, legit, Deleted(obj))
         /\ SideFits(obj) => SideFits(Deleted(obj))
<1>1. CASE case.slow /\ obj.here
  <2> DEFINE d == [obj EXCEPT !.term = TRUE]
  <2>1. Deleted(obj) = d
    BY <1>1 DEF Deleted
  <2>2. /\ d \in Objects /\ d.here = obj.here /\ d.term = TRUE /\ d.val = obj.val
        /\ d.mark = obj.mark /\ d.label = obj.label /\ d.selected = obj.selected
    BY Basics DEF Objects
  <2>3. Is(Deleting)
    BY <1>1, Basics, CasesAssumption DEF Is
  <2> HIDE DEF d
  <2> QED BY <2>1, <2>2, <2>3, <1>1 DEF Fit, Guard, Sound, SideFits, Base, Fits
<1>2. CASE ~(case.slow /\ obj.here)
  <2>1. Deleted(obj) = Gone
    BY <1>2 DEF Deleted
  <2> QED BY <2>1, GoneFacts DEF Fit, Sound, SideFits
<1> QED BY <1>1, <1>2

\* A delete takes the target away, or marks it.
LEMMA DeleteKeeps ==
  ASSUME OpInv, NEW ops, NEW at, NEW STATE next, NEW STATE missing, NEW STATE err,
         next \in Places, missing \in Places, err \in Places,
         DeleteTarget(ops, at, next, missing, err),
         Is(Deleting) /\ gaps = {} => OwnBackup
  PROVE  /\ Base' /\ gaps' = gaps
         /\ gaps' = {} => SureBase'
<1>1. Base
  BY DEF OpInv
<1>2. /\ call' \in Calls /\ Held /\ obj' \in {obj, Deleted(obj)}
      /\ taken' = (taken \/ (Is(Deleting) /\ obj' # obj))
      /\ UNCHANGED <<case, side, parts, closure, legit, gaps, edits>>
  BY <1>1, Basics, DeleteStep
<1>3. Fit(case.kind, legit, obj') /\ obj' \in Objects
  BY <1>1, <1>2, DeletedFacts DEF Base, Fits, Fit
<1>4. Fits'
  BY <1>1, <1>2, <1>3 DEF Base, Fits, Held
<1>5. Types' /\ ClosureKnown' /\ Excused'
  BY <1>1, <1>2, <1>3 DEF Base, Types, TypeOK, ClosureKnown, Excused, Is
<1>6. SideKnown'
  <2>1. obj' # obj => ~obj'.here \/ obj'.term
    BY <1>1, <1>2, DeletedFacts
  <2>2. taken' => Is(Deleting) /\ (~obj'.here \/ obj'.term)
    BY <2>1, <1>1, <1>2 DEF Base, SideKnown
  <2> QED BY <2>2, <1>1, <1>2 DEF Base, SideKnown, Foreign, Is
<1>7. ASSUME gaps' = {} PROVE SureBase'
  <2>1. SureBase
    BY <1>2, <1>7 DEF OpInv
  <2>2. Sound(case.kind, legit, obj') /\ SideFits(obj')
    BY <2>1, <1>1, <1>2, DeletedFacts DEF SureBase, SideSound
  <2>3. SideFits(obj)'
    BY <2>2, <1>2 DEF SideFits, Foreign, Is
  <2>4. taken' => OwnBackup
    BY <2>1, <1>2, <1>7 DEF SureBase, SideSound
  <2> QED BY <2>1, <2>2, <2>3, <2>4, <1>2 DEF SureBase, SideSound, OwnBackup, ClosureSound, Held, Is
<1> QED BY <1>2, <1>4, <1>5, <1>6, <1>7 DEF Base

\* A backup of the framework's own, or none, in place of the backup.
LEMMA SideKeeps ==
  ASSUME Base, call' \in Calls, Held,
         side' \in {side, NoBackup} \/ (\E v \in Values : side' = Backup(v)),
         gaps' \subseteq gaps \cup {"doubled", "lostDelete", "unseen", "foreignBackup", "terminating",
                                    "stripped", "overlap"},
         Is(Guarded) => "doubled" \notin gaps' \ gaps,
         Is({"NamespaceDeletion"}) => "terminating" \notin gaps' \ gaps,
         UNCHANGED <<case, obj, parts, closure, legit, taken, edits>>
  PROVE  Base'
<1>1. Fits'
  BY DEF Base, Fits, Held
<1> DEFINE Sides == [here : BOOLEAN, val : Values, managed : BOOLEAN]
<1>2. side' \in Sides /\ (side' = side \/ ~side'.here \/ side'.managed)
  <2>1. side \in Sides
    BY DEF Base, Types, TypeOK
  <2>2. NoBackup \in Sides /\ ~NoBackup.here
    BY ValueFacts DEF NoBackup
  <2>3. ASSUME NEW v \in Values PROVE Backup(v) \in Sides /\ Backup(v).managed
    BY DEF Backup
  <2> HIDE DEF Sides
  <2> QED BY <2>1, <2>2, <2>3
<1>3. Types'
  BY <1>2 DEF Base, Types, TypeOK
<1>4. SideKnown'
  BY <1>2 DEF Base, SideKnown, Foreign, Is
<1>5. ClosureKnown' /\ Excused'
  BY DEF Base, ClosureKnown, Excused, Is
<1> QED BY <1>1, <1>3, <1>4, <1>5 DEF Base

-----------------------------------------------------------------------------
(* The types that change the target in place *)

\* What a revert, or the closure, that returns without an error owes.
Back == call.op \in Undo /\ call.at # "ok" /\ call'.at = "ok" /\ gaps' = {} => Restored'

\* What nobody has to restore.
Clean(k, L, o) == o.here => o.mark = NoMark /\ o.label # "chaos" /\ Whole(k, L, o.val)

LEMMA InPlaceFacts ==
  ASSUME Is(InPlace)
  PROVE  /\ ~Is(Deleting) /\ ~Is(Creating) /\ ~Is({"PDBBlock", "QuotaExhaustion"})
         /\ ~Is({"WebhookLatency"}) /\ ~Is({"NamespaceDeletion"})
  BY DEF Is, InPlace, Deleting, Creating

\* For the types whose target alone matters.
LEMMA BackInPlace ==
  ASSUME OpInv, Is(InPlace), UNCHANGED <<case, legit, parts>>,
         call.op \in Undo /\ call.at # "ok" /\ call'.at = "ok" /\ gaps' = {} =>
             Clean(case.kind, legit, obj')
  PROVE  Back
<1>1. Is(InPlace)' /\ ~Is(Deleting)' /\ ~Is(Creating)' /\ parts' = {}
  BY InPlaceFacts DEF OpInv, Knows, Is
<1>2. Whole(case.kind, legit, obj'.val) =>
        IF case'.kind \in {"FinalizerBlock"} THEN "fault" \notin obj'.val.s
        ELSE Genuine(obj.val)'
  BY DEF Whole, Genuine, GenuineIn, Keys
<1> QED BY <1>1, <1>2 DEF Back, Restored, Clean, Is

LEMMA GetInPlace ==
  ASSUME OpInv, Is(InPlace), NEW ops, NEW STATE next,
         next \in {"write", "save", "create", "ok", "error"}, Get(ops, next),
         next \in {"write", "save"} => obj.here,
         next = "create" => ~obj.here,
         next \in {"save", "create"} => ops = {"inject"},
         next = "ok" => ops \subseteq Undo,
         next = "ok" /\ gaps = {} => Clean(case.kind, legit, obj),
         next = "write" /\ ops \subseteq Undo /\ (ops = {"revert"} \/ ~Is(ByClosure)) =>
             obj.mark \notin {NoMark, Corrupt},
         ops \subseteq Undo \/ ops = {"inject"},
         ops \subseteq {"revert"} \/ ops \subseteq {"cleanup"} \/ ops \subseteq {"inject"} \/ ~Is(ByClosure),
         Is({"ClientFault"}) /\ ops = {"cleanup"} /\ next = "write" => closure.was.here,
         ops = {"inject"} /\ next = "write" =>
             /\ ~Is({"SecretDrift"})
             /\ Is(Webhooks) => obj.mark = NoMark
             /\ Is({"FinalizerBlock"}) => "fault" \notin obj.val.s
             /\ Is({"OwnerRefOrphan"}) => obj.val.s # {}
             /\ Is({"LabelDelete"}) => obj.val # Absent
  PROVE  OpInv' /\ Back
<1> USE DEF Places
<1>1. Base /\ Knows
  BY DEF OpInv
<1>2. Base' /\ gaps' = gaps /\ (gaps' = {} => SureBase')
  BY GetKeeps
<1>3. /\ Stands(ops, "get") /\ call' \in Calls /\ Kept /\ call'.copy = call.copy
      /\ \/ call'.at = next /\ call'.got = obj /\ call'.stale = FALSE
         \/ call'.at = "error" /\ Held
      /\ UNCHANGED <<case, obj, side, parts, closure, legit, taken, gaps, edits>>
  BY <1>1, Basics, GetStep
<1>4. Is(InPlace)' /\ ~Is(Deleting)' /\ ~Is({"PDBBlock", "QuotaExhaustion"})'
      /\ ~Is({"WebhookLatency"})'
  BY <1>3, InPlaceFacts DEF Is
<1>5. KnowsInPlace'
  <2>1. CASE call'.at = "error"
    BY <2>1 DEF KnowsInPlace, Ends
  <2>2. CASE call'.at = next /\ call'.got = obj /\ call'.stale = FALSE
    <3>1. call'.op \in {"revert", "cleanup"} /\ call'.at = "write"
            /\ (call'.op = "revert" \/ ~Is(ByClosure)) => obj.mark \notin {NoMark, Corrupt}
      BY <2>2, <1>3 DEF Stands, Kept, Undo
    <3>2. call'.op = "cleanup" /\ call'.at = "write" /\ Is({"ClientFault"}) => closure.was.here
      BY <2>2, <1>3 DEF Stands, Kept, Undo, Is, ByClosure
    <3>3. call'.op = "inject" => ops = {"inject"} /\ call'.at # "ok"
      BY <2>2, <1>3 DEF Stands, Kept, Undo
    <3>4. call'.op \in {"revert", "cleanup"} => call'.at \notin {"save", "create"}
      BY <2>2, <1>3 DEF Stands, Kept, Undo
    <3> QED BY <2>2, <1>3, <3>1, <3>2, <3>3, <3>4 DEF KnowsInPlace, Ends, Is, Undo
  <2> QED BY <1>3, <2>1, <2>2
<1>6. Knows'
  BY <1>1, <1>3, <1>4, <1>5, InPlaceFacts DEF Knows, Stands, Kept, Held, Undo
<1>7. ASSUME gaps' = {} PROVE ReliesInPlace'
  BY <1>1, <1>3, <1>4 DEF ReliesInPlace, Stands, Kept, Held, Is, Undo
<1>8. gaps' = {} => Relies'
  BY <1>4, <1>7 DEF Relies
<1>9. Back
  BY <1>3, BackInPlace
<1> QED BY <1>2, <1>6, <1>8, <1>9 DEF OpInv

LEMMA UndoWrite ==
  ASSUME OpInv, Is(InPlace), NEW ops, ops \subseteq Undo, NEW at, NEW STATE accepted,
         NEW STATE new, Write(ops, at, accepted, new, "ok", "error"),
         accepted => Fit(case.kind, legit, new) /\ new.mark = NoMark,
         accepted /\ gaps = {} /\ Nulls(new) = {} =>
             /\ Clean(case.kind, legit, new)
             /\ Is(Webhooks) => new.selected
  PROVE  OpInv' /\ Back
<1> USE DEF Places
<1>1. Base /\ Knows
  BY DEF OpInv
<1>2. /\ Stands(ops, at) /\ call' \in Calls /\ Held
      /\ \/ /\ accepted /\ obj' = new /\ call'.at \in {"ok", "error"}
            /\ gaps' = gaps \cup Doubles \cup Nulls(new)
         \/ ~accepted /\ call'.at = "error" /\ obj' = obj /\ gaps' = gaps
         \/ call'.at = "error" /\ obj' = obj /\ gaps' = gaps
      /\ UNCHANGED <<case, side, parts, closure, legit, edits>>
  BY <1>1, Basics, WriteStep
<1>3. Doubles = {}
  BY <1>2 DEF Doubles, Stands, Undo
<1>4. accepted /\ gaps = {} /\ Doubles = {} /\ Nulls(new) = {} =>
        Sound(case.kind, legit, new) /\ SideFits(new)
  BY InPlaceFacts, ValueFacts DEF Sound, SideFits, Clean, Is
<1>5. Base' /\ (gaps' = {} => SureBase')
  BY <1>3, <1>4, WriteKeeps
<1>6. Is(InPlace)' /\ ~Is(Deleting)' /\ ~Is({"PDBBlock", "QuotaExhaustion"})'
      /\ ~Is({"WebhookLatency"})'
  BY <1>2, InPlaceFacts DEF Is
<1>7. Knows'
  BY <1>1, <1>2, <1>6, InPlaceFacts DEF Knows, KnowsInPlace, Ends, Stands, Kept, Held, Undo
<1>8. Relies'
  BY <1>2, <1>6 DEF Relies, ReliesInPlace, Stands, Kept, Held, Undo
<1>9. Back
  BY <1>2, <1>3, BackInPlace
<1> QED BY <1>5, <1>7, <1>8, <1>9 DEF OpInv

LEMMA InjectWrite ==
  ASSUME OpInv, Is(InPlace), NEW at, at \in {"write", "create"},
         at = "create" => Is({"ClientFault"}), NEW STATE accepted,
         NEW STATE new, Write({"inject"}, at, accepted, new, "ok", "error"),
         accepted => /\ Fit(case.kind, legit, new)
                     /\ Is(Guarded) => Doubles = {},
         accepted /\ gaps = {} /\ Doubles = {} =>
             Sound(case.kind, legit, new) /\ SideFits(new)
  PROVE  OpInv' /\ Back
<1> USE DEF Places
<1>1. Base /\ Knows
  BY DEF OpInv
<1>2. /\ Stands({"inject"}, at) /\ call' \in Calls /\ Held
      /\ \/ /\ accepted /\ obj' = new /\ call'.at \in {"ok", "error"}
            /\ gaps' = gaps \cup Doubles \cup Nulls(new)
         \/ ~accepted /\ call'.at = "error" /\ obj' = obj /\ gaps' = gaps
         \/ call'.at = "error" /\ obj' = obj /\ gaps' = gaps
      /\ UNCHANGED <<case, side, parts, closure, legit, edits>>
  BY <1>1, Basics, WriteStep
<1>3. Base' /\ (gaps' = {} => SureBase')
  BY WriteKeeps
<1>4. Is(InPlace)' /\ ~Is(Deleting)' /\ ~Is({"PDBBlock", "QuotaExhaustion"})'
      /\ ~Is({"WebhookLatency"})'
  BY <1>2, InPlaceFacts DEF Is
<1>5. Knows'
  BY <1>1, <1>2, <1>4, InPlaceFacts DEF Knows, KnowsInPlace, Ends, Stands, Kept, Held, Undo, Is
<1>6. ASSUME gaps' = {}, call'.at = "ok", call.got.here PROVE GenuineIn(legit, call.got.val)
  <2>1. Doubles = {}
    BY <1>2, <1>6
  <2>2. call.op = "inject"
    BY <1>2 DEF Stands
  <2> QED BY <2>1, <2>2, <1>6, GenuineIs DEF Doubles, got
<1>7. ASSUME gaps' = {} PROVE Relies'
  BY <1>2, <1>4, <1>6, <1>7 DEF Relies, ReliesInPlace, Stands, Kept, Held, Is
<1>8. Back
  BY <1>2 DEF Back, Stands, Undo
<1> QED BY <1>3, <1>5, <1>7, <1>8 DEF OpInv

\* A write of an undo that has further steps before it.
LEMMA MidWrite ==
  ASSUME OpInv, Is(InPlace), NEW ops, ops \subseteq Undo, NEW at, at \in {"write", "restore"},
         NEW STATE accepted, NEW STATE new, NEW STATE next, next \in {"refetch", "unmark", "drop"},
         Write(ops, at, accepted, new, next, "error"),
         accepted => Fit(case.kind, legit, new),
         next = "refetch" => ~Is({"SecretDrift"}),
         accepted /\ gaps = {} /\ Nulls(new) = {} =>
             /\ Sound(case.kind, legit, new) /\ SideFits(new)
             /\ next = "refetch" => new.val = Absent
             /\ next # "refetch" => GenuineIn(legit, new.val)
  PROVE  OpInv' /\ Back
<1> USE DEF Places
<1>1. Base /\ Knows
  BY DEF OpInv
<1>2. /\ Stands(ops, at) /\ call' \in Calls /\ Held
      /\ \/ /\ accepted /\ obj' = new /\ call'.at \in {next, "error"}
            /\ gaps' = gaps \cup Doubles \cup Nulls(new)
         \/ ~accepted /\ call'.at = "error" /\ obj' = obj /\ gaps' = gaps
         \/ call'.at = "error" /\ obj' = obj /\ gaps' = gaps
      /\ UNCHANGED <<case, side, parts, closure, legit, edits>>
  BY <1>1, Basics, WriteStep
<1>3. Doubles = {}
  BY <1>2 DEF Doubles, Stands, Undo
<1>4. Base' /\ (gaps' = {} => SureBase')
  BY <1>3, WriteKeeps
<1>5. Is(InPlace)' /\ ~Is(Deleting)' /\ ~Is({"PDBBlock", "QuotaExhaustion"})'
      /\ ~Is({"WebhookLatency"})'
  BY <1>2, InPlaceFacts DEF Is
<1>6. Knows'
  BY <1>1, <1>2, <1>5, InPlaceFacts DEF Knows, KnowsInPlace, Ends, Stands, Kept, Held, Undo, Is
<1>7. ASSUME gaps' = {} PROVE ReliesInPlace'
  <2>1. \/ call'.at = "error"
        \/ /\ call'.at = next
           /\ next = "refetch" => obj'.val = Absent
           /\ next # "refetch" => GenuineIn(legit, obj'.val)
    BY <1>2, <1>3, <1>7
  <2>2. call'.op # "inject"
    BY <1>2 DEF Stands, Held, Kept, Undo
  <2> QED BY <1>2, <2>1, <2>2 DEF ReliesInPlace, Is
<1>8. gaps' = {} => Relies'
  BY <1>5, <1>7 DEF Relies
<1>9. Back
  BY <1>2 DEF Back
<1> QED BY <1>4, <1>6, <1>8, <1>9 DEF OpInv

\* A closure or revert that deletes what the injection has created.
LEMMA UndoDelete ==
  ASSUME OpInv, Is(InPlace), NEW ops, ops \subseteq Undo, NEW at,
         DeleteTarget(ops, at, "ok", "ok", "error")
  PROVE  OpInv' /\ Back
<1> USE DEF Places
<1>1. Base /\ Knows
  BY DEF OpInv
<1>2. /\ Stands(ops, at) /\ call' \in Calls /\ Held
      /\ \/ obj' = Deleted(obj) /\ call'.at = "ok"
         \/ obj' \in {obj, Deleted(obj)} /\ call'.at = "error"
      /\ UNCHANGED <<case, side, parts, closure, legit, gaps, edits>>
  BY <1>1, Basics, DeleteStep
<1>3. Base' /\ (gaps' = {} => SureBase')
  BY InPlaceFacts, DeleteKeeps
<1>4. Is(InPlace)' /\ ~Is(Deleting)' /\ ~Is({"PDBBlock", "QuotaExhaustion"})'
      /\ ~Is({"WebhookLatency"})'
  BY <1>2, InPlaceFacts DEF Is
<1>5. Knows'
  BY <1>1, <1>2, <1>4, InPlaceFacts DEF Knows, KnowsInPlace, Ends, Stands, Kept, Held, Undo
<1>6. Relies'
  BY <1>2, <1>4 DEF Relies, ReliesInPlace, Stands, Kept, Held, Undo
<1>7. ~Deleted(obj).here
  BY <1>1, DeletedFacts, InPlaceFacts
<1>8. Back
  BY <1>2, <1>7, BackInPlace DEF Clean
<1> QED BY <1>3, <1>5, <1>6, <1>8 DEF OpInv

LEMMA GetExistingStep ==
  ASSUME OpInv, Is(InPlace), NEW op, op = "inject" \/ (op = "cleanup" /\ Is(ByClosure \ {"ClientFault"})),
         GetExisting({op}),
         op = "inject" => ~Is(Guarded) /\ ~Is({"SecretDrift"})
  PROVE  OpInv' /\ Back
<1> DEFINE next == IF obj.here THEN "write" ELSE "error"
<1>1. Get({op}, next)
  BY DEF GetExisting
<1>2. next \in {"write", "error"} /\ (next = "write" => obj.here)
  OBVIOUS
<1>3. op = "inject" => ~Is(Webhooks) /\ ~Is({"FinalizerBlock"}) /\ ~Is({"OwnerRefOrphan"})
                       /\ ~Is({"LabelDelete"})
  BY DEF Is, Guarded, Webhooks
<1> HIDE DEF next
<1>4. op = "cleanup" => ~Is({"ClientFault"}) /\ Is(ByClosure)
  BY DEF Is, ByClosure
<1> QED BY <1>1, <1>2, <1>3, <1>4, GetInPlace DEF Undo

LEMMA GetMarkedStep ==
  ASSUME OpInv, Is(InPlace), NEW ops, GetMarked(ops),
         ops = {"revert"} \/ (ops \in {Undo, {"cleanup"}} /\ ~Is(ByClosure))
  PROVE  OpInv' /\ Back
<1> DEFINE next == CASE ~obj.here \/ obj.mark = NoMark -> "ok"
                     [] obj.here /\ obj.mark # NoMark ->
                          IF UnwrapRollbackData(obj.mark) THEN "write" ELSE "error"
<1>1. Get(ops, next)
  BY DEF GetMarked
<1>2. /\ next \in {"write", "ok", "error"}
      /\ next = "write" => obj.here /\ obj.mark \notin {NoMark, Corrupt}
      /\ next = "ok" => ~obj.here \/ obj.mark = NoMark
  BY DEF UnwrapRollbackData
<1>3. next = "ok" /\ gaps = {} => Clean(case.kind, legit, obj)
  BY <1>2 DEF OpInv, SureBase, Sound, Clean, Is
<1>4. ops \subseteq Undo /\ ops # {"inject"} /\ (Is({"ClientFault"}) => ops # {"cleanup"})
  BY DEF Undo, Is, ByClosure
<1> HIDE DEF next
<1> QED BY <1>1, <1>2, <1>3, <1>4, GetInPlace DEF Undo

\* What an injection, and a revert, know of the object that they have read.
LEMMA GotOriginal ==
  ASSUME OpInv, Is(InPlace), Stands({"inject"}, "write")
  PROVE  /\ got \in Objects /\ got.here /\ got.val \in Values /\ Fit(case.kind, legit, got)
         /\ Doubles = {} => GenuineIn(legit, got.val)
         /\ GenuineIn(legit, got.val) => Doubles = {}
         /\ ~call.stale => obj = got
<1>1. got \in Objects /\ got.here /\ Fit(case.kind, legit, got)
  BY DEF OpInv, Knows, KnowsInPlace, Ends, Stands, got, Base, Fits, Fit
<1>2. got.val \in Values
  BY <1>1 DEF Objects
<1>3. call.op = "inject"
  BY DEF Stands
<1>4. Doubles = {} <=> GenuineIn(legit, got.val)
  BY <1>1, <1>3, GenuineIs DEF Doubles
<1>5. ~call.stale => obj = got
  BY DEF OpInv, Knows, Stands, got
<1> QED BY <1>1, <1>2, <1>4, <1>5

LEMMA GotMarked ==
  ASSUME OpInv, Is(InPlace), NEW ops, Stands(ops, "write"),
         ops = {"revert"} \/ (ops = Undo /\ ~Is(ByClosure))
  PROVE  /\ got \in Objects /\ got.here /\ got.mark \in Marks(case.kind) \ {NoMark, Corrupt}
         /\ Fit(case.kind, legit, got)
         /\ gaps = {} => Sound(case.kind, legit, got)
         /\ ~call.stale => obj = got
<1>1. call.op \in Undo /\ (call.op = "revert" \/ ~Is(ByClosure))
  BY DEF Stands, Undo
<1>2. got \in Objects /\ got.here /\ Fit(case.kind, legit, got) /\ got.mark \notin {NoMark, Corrupt}
  BY <1>1 DEF OpInv, Knows, KnowsInPlace, Ends, Stands, got, Base, Fits, Fit
<1>3. got.mark \in Marks(case.kind)
  BY <1>2 DEF Fit
<1>4. gaps = {} => Sound(case.kind, legit, got)
  BY DEF OpInv, SureBase, got
<1>5. ~call.stale => obj = got
  BY DEF OpInv, Knows, Stands, got
<1> QED BY <1>2, <1>3, <1>4, <1>5

LEMMA MarkValues ==
  ASSUME Is(InPlace)
  PROVE  /\ case.kind \in Valued => Values \subseteq Marks(case.kind)
         /\ case.kind \in Valued \ {"ClientFault"} =>
              Marks(case.kind) = Values \cup {NoMark, Corrupt}
         /\ case.kind = "ClientFault" => Marks(case.kind) = Values \cup {NoMark, Corrupt, Created}
         /\ case.kind = "SecretDrift" => Marks(case.kind) = {NoMark, Corrupt, Ref}
         /\ case.kind = "FinalizerBlock" => Marks(case.kind) = {NoMark, Corrupt, Scalar("fault")}
         /\ NoMark \in Marks(case.kind)
  BY DEF Is, Marks, Valued, InPlace

LEMMA CopiedStep ==
  ASSUME OpInv, \/ RBACRevokeInject \/ RBACRevokeRevert
                \/ ConfigMapInject \/ ConfigMapRevert
  PROVE  OpInv' /\ Back
<1> DEFINE k == case.kind
           fault == IF Is({"ConfigMapDrift"}) THEN case.fault ELSE Map({})
           bad == ApplyChaosMetadata(With(got, fault), got.val)
           good == RemoveChaosMetadata(With(got, got.mark))
<1>1. k \in {"ClusterRoleBinding", "RoleBinding", "ConfigMapDrift"}
  BY DEF RBACRevokeInject, RBACRevokeRevert, ConfigMapInject, ConfigMapRevert, Is
<1>2. \/ GetExisting({"inject"})
      \/ Update({"inject"}, "write", bad, "ok")
      \/ GetMarked(Undo)
      \/ Update(Undo, "write", good, "ok")
  BY <1>1 DEF RBACRevokeInject, RBACRevokeRevert, ConfigMapInject, ConfigMapRevert, Is
<1>3. /\ Is(InPlace) /\ k \in Valued \ {"ClientFault"} /\ ~Is(Guarded) /\ ~Is(ByClosure)
      /\ ~Is({"SecretDrift"}) /\ ~Is(Webhooks) /\ ~Is(Deleting)
      /\ k \notin Diffed \cup Webhooks \cup {"FinalizerBlock", "OwnerRefOrphan", "LabelDelete"}
  BY <1>1 DEF Is, InPlace, Valued, Diffed, Webhooks, CRDs, ByClosure, Guarded, Deleting
<1>4. Base /\ fault \in Values
  BY Basics, MapValue DEF OpInv
<1> HIDE DEF k, fault, bad, good
<1>5. CASE Update({"inject"}, "write", bad, "ok")
  <2>1. Stands({"inject"}, "write")
    BY <1>5 DEF Update, Write
  <2>2. bad \in Objects /\ bad.mark = got.val /\ bad.val = fault /\ bad.here
    BY <2>1, <1>3, <1>4, GotOriginal, FaultyFacts DEF bad
  <2>3. Fit(case.kind, legit, bad)
    BY <2>1, <2>2, <1>3, GotOriginal, MarkValues DEF Fit, Guard, k
  <2>4. Doubles = {} => Sound(case.kind, legit, bad) /\ SideFits(bad)
    BY <2>1, <2>2, <1>3, GotOriginal, ValueFacts DEF Sound, SideFits, k
  <2> QED BY <1>5, <1>3, <2>3, <2>4, InjectWrite DEF Update
<1>6. CASE Update(Undo, "write", good, "ok")
  <2>1. Stands(Undo, "write")
    BY <1>6 DEF Update, Write
  <2>2. got.mark \in Values /\ got \in Objects /\ got.here
    BY <2>1, <1>3, GotMarked, MarkValues DEF k
  <2>3. /\ good \in Objects /\ good.mark = NoMark /\ good.val = got.mark
        /\ good.label # "chaos" /\ good.here
    BY <2>2, RestoredFacts DEF good
  <2>4. Fit(case.kind, legit, good)
    BY <2>3, <1>3, MarkValues DEF Fit, Guard, k
  <2>5. gaps = {} => Clean(case.kind, legit, good)
    BY <2>1, <2>2, <2>3, <1>3, GotMarked DEF Clean, Whole, Sound, k
  <2> QED BY <1>6, <1>3, <2>3, <2>4, <2>5, UndoWrite DEF Update
<1>7. CASE GetExisting({"inject"})
  BY <1>7, <1>3, GetExistingStep
<1>8. CASE GetMarked(Undo)
  BY <1>8, <1>3, GetMarkedStep
<1> QED BY <1>2, <1>5, <1>6, <1>7, <1>8

LEMMA WebhookStep ==
  ASSUME OpInv, WebhookDisruptInject \/ WebhookDisruptRevert \/ RestorePolicies
  PROVE  OpInv' /\ Back
<1> DEFINE k == case.kind
           bad == ApplyChaosMetadata(With(got, case.fault), got.val)
           good == RemoveChaosMetadata(With(got, got.mark))
<1>1. k \in Webhooks
  BY DEF WebhookDisruptInject, WebhookDisruptRevert, RestorePolicies, Is, Webhooks
<1>2. \/ Get({"inject"}, IF Resolved /\ obj.mark = NoMark THEN "write" ELSE "error")
      \/ Update({"inject"}, "write", bad, "ok")
      \/ GetMarked({"revert"})
      \/ ~Resolved /\ Get({"revert"}, "ok")
      \/ GetMarked({"cleanup"})
      \/ Update(Undo, "write", good, "ok")
  BY DEF WebhookDisruptInject, WebhookDisruptRevert, RestorePolicies
<1>3. /\ Is(InPlace) /\ k \in Valued \ {"ClientFault"} /\ ~Is(ByClosure)
      /\ ~Is({"SecretDrift"}) /\ Is(Webhooks) /\ ~Is(Deleting) /\ ~Is({"ClientFault"})
      /\ ~Is({"FinalizerBlock"}) /\ ~Is({"OwnerRefOrphan"}) /\ ~Is({"LabelDelete"})
      /\ k \notin Diffed \cup {"FinalizerBlock", "OwnerRefOrphan", "LabelDelete"}
  BY <1>1 DEF Is, InPlace, Valued, Diffed, Webhooks, CRDs, ByClosure, Guarded, Deleting
<1>4. Base
  BY DEF OpInv
<1> HIDE DEF k, bad, good
<1>5. CASE Get({"inject"}, IF Resolved /\ obj.mark = NoMark THEN "write" ELSE "error")
  <2> DEFINE next == IF Resolved /\ obj.mark = NoMark THEN "write" ELSE "error"
  <2>1. /\ next \in {"write", "error"}
        /\ next = "write" => obj.here /\ obj.mark = NoMark
    BY DEF Resolved
  <2> HIDE DEF next
  <2>2. Get({"inject"}, next)
    BY <1>5 DEF next
  <2> QED BY <2>1, <2>2, <1>3, GetInPlace DEF Undo
<1>6. CASE Update({"inject"}, "write", bad, "ok")
  <2>1. Stands({"inject"}, "write")
    BY <1>6 DEF Update, Write
  <2>2. bad \in Objects /\ bad.mark = got.val /\ bad.val = case.fault /\ bad.here
        /\ bad.selected = got.selected /\ got.val \in Values
    <3>1. got \in Objects /\ got.here /\ got.val \in Values
      BY <2>1, <1>3, GotOriginal
    <3>2. case.fault \in Values
      BY <1>4, Basics
    <3> QED BY <3>1, <3>2, FaultyFacts DEF bad
  <2>3. got.mark = NoMark
    BY <2>1, <1>3 DEF OpInv, Knows, KnowsInPlace, Stands, got
  <2>4. GenuineIn(legit, got.val)
    BY <2>1, <2>3, <1>1, <1>3, GotOriginal DEF Fit, Guard, k
  <2>5. Doubles = {}
    BY <2>1, <2>4, <1>3, GotOriginal
  <2>6. Fit(case.kind, legit, bad)
    BY <2>2, <2>4, <1>3, MarkValues, ValueFacts DEF Fit, Guard, k
  <2>7. gaps = {} => Sound(case.kind, legit, bad) /\ SideFits(bad)
    <3>1. gaps = {} => got.selected
      BY <2>1, <1>1, <1>3, GotOriginal DEF OpInv, SureBase, Sound, got, k
    <3> QED BY <3>1, <2>2, <2>4, <1>3, ValueFacts DEF Sound, SideFits, k
  <2> QED BY <1>6, <1>3, <2>5, <2>6, <2>7, InjectWrite DEF Update
<1>7. CASE Update(Undo, "write", good, "ok")
  <2>1. Stands(Undo, "write")
    BY <1>7 DEF Update, Write
  <2>2. got.mark \in Values /\ got \in Objects /\ got.here /\ Fit(case.kind, legit, got)
    BY <2>1, <1>3, GotMarked, MarkValues DEF k
  <2>3. /\ good \in Objects /\ good.mark = NoMark /\ good.val = got.mark
        /\ good.label # "chaos" /\ good.here /\ good.selected = got.selected
    BY <2>2, RestoredFacts DEF good
  <2>4. GenuineIn(legit, got.mark)
    BY <2>2, <1>1 DEF Fit, Guard, k
  <2>5. Fit(case.kind, legit, good)
    BY <2>3, <2>4, <1>3, ValueFacts, MarkValues DEF Fit, Guard, k
  <2>6. gaps = {} => Clean(case.kind, legit, good) /\ good.selected
    BY <2>1, <2>2, <2>3, <2>4, <1>1, <1>3, GotMarked DEF Clean, Whole, Sound, k
  <2> QED BY <1>7, <1>3, <2>3, <2>5, <2>6, UndoWrite DEF Update
<1>8. CASE GetMarked({"revert"})
  BY <1>8, <1>3, GetMarkedStep
<1>9. CASE GetMarked({"cleanup"})
  BY <1>9, <1>3, GetMarkedStep
<1>10. CASE ~Resolved /\ Get({"revert"}, "ok")
  <2>1. gaps = {} => ~obj.here
    BY <1>1, <1>10 DEF OpInv, SureBase, Sound, Resolved, k
  <2> QED BY <2>1, <1>3, <1>10, GetInPlace DEF Clean, Undo
<1> QED BY <1>2, <1>5, <1>6, <1>7, <1>8, <1>9, <1>10

\* What is left of an object without the finalizer fits, and is clean.
LEMMA WithoutFinalizerFacts ==
  ASSUME NEW L, L \subseteq Values, NEW o \in Objects, Fit("FinalizerBlock", L, o), o.here
  PROVE  /\ Fit("FinalizerBlock", L, WithoutFinalizer(o))
         /\ WithoutFinalizer(o).mark = NoMark /\ WithoutFinalizer(o).label # "chaos"
         /\ Clean("FinalizerBlock", L, WithoutFinalizer(o))
<1> DEFINE m == Map(o.val.s \ {"fault"})
           left == RemoveChaosMetadata(With(o, m))
<1>1. o.val \in Values /\ o.val.s \subseteq Atoms
  BY ValueFields DEF Objects
<1>2. m \in Values /\ m.t = "map" /\ m.s = o.val.s \ {"fault"} /\ m \in L
  BY <1>1, MapValue DEF Fit, Guard
<1>3. /\ left \in Objects /\ left.val = m /\ left.mark = NoMark /\ left.label = "none"
  BY <1>2, RestoredFacts
<1>4. Map(m.s \ {"fault"}) = m
  BY <1>2 DEF Map
<1> HIDE DEF m
<1>5. Fit("FinalizerBlock", L, left) /\ Clean("FinalizerBlock", L, left)
  BY <1>2, <1>3, <1>4 DEF Fit, Guard, Clean, Whole, Marks, Webhooks
<1> HIDE DEF left
<1>6. WithoutFinalizer(o) \in {left, Gone}
  BY DEF WithoutFinalizer, left, m
<1>7. Fit("FinalizerBlock", L, Gone) /\ Clean("FinalizerBlock", L, Gone)
  BY GoneFacts DEF Fit, Clean
<1> QED BY <1>3, <1>5, <1>6, <1>7, GoneFacts

LEMMA FinalizerBlockStep ==
  ASSUME OpInv, FinalizerBlockInject \/ FinalizerBlockCleanup \/ FinalizerBlockRevert
  PROVE  OpInv' /\ Back
<1> DEFINE bad == ApplyChaosMetadata(With(got, Map(got.val.s \cup {"fault"})), Scalar("fault"))
           good == WithoutFinalizer(got)
           look == IF obj.here /\ "fault" \notin obj.val.s /\ ~obj.term THEN "write" ELSE "error"
           again == CASE ~obj.here -> "error"
                      [] obj.here /\ "fault" \notin obj.val.s
                         /\ obj.mark = NoMark /\ obj.label = "none" -> "ok"
                      [] OTHER -> "write"
<1>1. case.kind = "FinalizerBlock"
  BY DEF FinalizerBlockInject, FinalizerBlockCleanup, FinalizerBlockRevert, Is
<1>2. \/ Get({"inject"}, look)
      \/ Update({"inject"}, "write", bad, "ok")
      \/ Get({"cleanup"}, again)
      \/ Update({"cleanup"}, "write", good, "ok")
      \/ GetMarked({"revert"})
      \/ Update({"revert"}, "write", good, "ok")
  BY DEF FinalizerBlockInject, FinalizerBlockCleanup, FinalizerBlockRevert
<1>3. /\ Is(InPlace) /\ Is(ByClosure) /\ ~Is({"SecretDrift"}) /\ ~Is(Webhooks) /\ ~Is(Deleting)
      /\ ~Is({"ClientFault"}) /\ ~Is({"OwnerRefOrphan"}) /\ ~Is({"LabelDelete"})
      /\ case.kind \notin Diffed \cup Webhooks \cup Valued
  BY <1>1 DEF Is, InPlace, Valued, Diffed, Webhooks, CRDs, ByClosure, Guarded, Deleting
<1>4. Base
  BY DEF OpInv
<1>5. /\ look \in {"write", "error"}
      /\ look = "write" => obj.here /\ "fault" \notin obj.val.s
  OBVIOUS
<1>6. /\ again \in {"write", "ok", "error"}
      /\ again = "write" => obj.here
      /\ again = "ok" => "fault" \notin obj.val.s /\ obj.mark = NoMark /\ obj.label = "none"
  OBVIOUS
<1> HIDE DEF bad, good, look, again
<1>7. CASE Get({"inject"}, look)
  BY <1>7, <1>3, <1>5, GetInPlace DEF Undo
<1>8. CASE Get({"cleanup"}, again)
  <2>1. again = "ok" => Clean(case.kind, legit, obj)
    BY <1>1, <1>6 DEF Clean, Whole
  <2> QED BY <1>8, <1>3, <1>6, <2>1, GetInPlace DEF Undo
<1>9. CASE GetMarked({"revert"})
  BY <1>9, <1>3, GetMarkedStep
<1>10. CASE Update({"inject"}, "write", bad, "ok")
  <2>1. Stands({"inject"}, "write")
    BY <1>10 DEF Update, Write
  <2>2. got \in Objects /\ got.here /\ got.val \in Values /\ Fit("FinalizerBlock", legit, got)
    BY <2>1, <1>1, <1>3, GotOriginal
  <2>3. "fault" \notin got.val.s
    BY <2>1, <1>1, <1>3 DEF OpInv, Knows, KnowsInPlace, Stands, got, Is
  <2>4. got.val.t = "map" /\ Map(got.val.s) \in legit
    <3>1. got.val.s \ {"fault"} = got.val.s
      BY <2>3
    <3> QED BY <2>2, <3>1 DEF Fit, Guard
  <2>5. Map(got.val.s) = got.val
    BY <2>2, <2>4 DEF Values, Map, Absent
  <2>6. Doubles = {}
    BY <2>1, <2>4, <2>5, <1>3, GotOriginal DEF GenuineIn
  <2> DEFINE v == Map(got.val.s \cup {"fault"})
  <2>7. v \in Values /\ v.t = "map" /\ v.s \ {"fault"} = got.val.s
    BY <2>2, <2>3, ValueFields, MapValue DEF Atoms
  <2> HIDE DEF v
  <2>8. /\ bad \in Objects /\ bad.val = v /\ bad.mark = Scalar("fault") /\ bad.here
    <3>1. got \in Objects /\ got.here /\ v \in Values /\ Scalar("fault") \in Values
      BY <2>2, <2>7, ValueFacts
    <3> QED BY <3>1, FaultyFacts DEF bad, v
  <2>9. Fit(case.kind, legit, bad)
    BY <2>4, <2>7, <2>8, <1>1, <1>3, MarkValues DEF Fit, Guard
  <2>10. Sound(case.kind, legit, bad) /\ SideFits(bad)
    BY <2>8, <1>1, <1>3, ValueFacts DEF Sound, SideFits
  <2> QED BY <1>10, <1>3, <2>6, <2>9, <2>10, InjectWrite DEF Update
<1>11. ASSUME NEW op, op \in Undo, Update({op}, "write", good, "ok") PROVE OpInv' /\ Back
  <2>1. got \in Objects /\ got.here /\ Fit("FinalizerBlock", legit, got)
    BY <1>11, <1>1, <1>3 DEF Update, Write, Stands, OpInv, Base, Fits, Fit, Knows, KnowsInPlace, Ends, got
  <2>2. legit \subseteq Values
    BY <1>4, Basics
  <2>3. Fit(case.kind, legit, good) /\ good.mark = NoMark /\ good.label # "chaos"
        /\ Clean(case.kind, legit, good)
    BY <2>1, <2>2, <1>1, WithoutFinalizerFacts DEF good
  <2> QED BY <1>11, <1>3, <2>3, UndoWrite DEF Update
<1> QED BY <1>2, <1>7, <1>8, <1>9, <1>10, <1>11 DEF Undo

\* What the closure has captured.
LEMMA Captured ==
  ASSUME OpInv, Is(InPlace \ {"ClientFault"}), call.op = "cleanup"
  PROVE  /\ closure.was \in Objects /\ closure.was.here /\ closure.was.val \in Values
         /\ Fit(case.kind, legit, closure.was)
         /\ gaps = {} /\ ~Is({"FinalizerBlock"}) => GenuineIn(legit, closure.was.val)
<1>1. closure.set /\ closure.was.here /\ Fit(case.kind, legit, closure.was)
  BY DEF OpInv, Knows, Base, ClosureKnown, Fits
<1>2. closure.was \in Objects /\ closure.was.val \in Values
  BY <1>1 DEF Fit, Objects
<1>3. gaps = {} /\ ~Is({"FinalizerBlock"}) => GenuineIn(legit, closure.was.val)
  BY <1>1 DEF OpInv, SureBase, ClosureSound, Is
<1> QED BY <1>1, <1>2, <1>3

LEMMA ClientFaultStep ==
  ASSUME OpInv, ClientFaultInject \/ ClientFaultCleanup \/ ClientFaultRevert
  PROVE  OpInv' /\ Back
<1> DEFINE k == case.kind
           bad == ApplyChaosMetadata(With(got, Map(got.val.s \cup {"fault"})), got.val)
           made == [Gone EXCEPT !.here = TRUE, !.val = Map({"fault"})]
           created == ApplyChaosMetadata(made, Created)
           back == RemoveChaosMetadata(With(got, closure.was.val))
           good == RemoveChaosMetadata(With(got, got.mark))
           look == IF obj.here THEN "write" ELSE "create"
           again == IF obj.here THEN "write" ELSE "ok"
<1>1. k = "ClientFault"
  BY DEF ClientFaultInject, ClientFaultCleanup, ClientFaultRevert, Is
<1>2. \/ Get({"inject"}, look)
      \/ Update({"inject"}, "write", bad, "ok")
      \/ Create({"inject"}, "create", created, "ok", "error")
      \/ closure.was.here /\ Get({"cleanup"}, again)
      \/ DeleteTarget({"cleanup"}, "get", "ok", "ok", "error")
      \/ Update({"cleanup"}, "write", back, "ok")
      \/ GetMarked({"revert"})
      \/ DeleteTarget({"revert"}, "write", "ok", "ok", "error")
      \/ got.mark # Created /\ Update({"revert"}, "write", good, "ok")
  BY DEF ClientFaultInject, ClientFaultCleanup, ClientFaultRevert
<1>3. /\ Is(InPlace) /\ k \in Valued /\ Is(ByClosure) /\ ~Is({"SecretDrift"}) /\ ~Is(Webhooks)
      /\ ~Is(Guarded) /\ ~Is(Deleting) /\ ~Is({"FinalizerBlock"}) /\ ~Is({"OwnerRefOrphan"})
      /\ ~Is({"LabelDelete"}) /\ Is({"ClientFault"})
      /\ k \notin Diffed \cup Webhooks \cup {"FinalizerBlock", "OwnerRefOrphan", "LabelDelete"}
  BY <1>1 DEF Is, InPlace, Valued, Diffed, Webhooks, CRDs, ByClosure, Guarded, Deleting
<1>4. Base /\ Knows
  BY DEF OpInv
<1>5. look \in {"write", "create"} /\ (look = "write" <=> obj.here)
  OBVIOUS
<1>6. again \in {"write", "ok"} /\ (again = "write" <=> obj.here)
  OBVIOUS
<1> HIDE DEF k, bad, created, made, back, good, look, again
<1>7. CASE Get({"inject"}, look)
  BY <1>7, <1>3, <1>5, GetInPlace DEF Undo
<1>8. CASE Update({"inject"}, "write", bad, "ok")
  <2> DEFINE v == Map(got.val.s \cup {"fault"})
  <2>1. Stands({"inject"}, "write")
    BY <1>8 DEF Update, Write
  <2>2. got \in Objects /\ got.here /\ got.val \in Values
    BY <2>1, <1>3, GotOriginal
  <2>3. v \in Values
    BY <2>2, ValueFields, MapValue DEF Atoms
  <2> HIDE DEF v
  <2>4. /\ bad \in Objects /\ bad.val = v /\ bad.mark = got.val /\ bad.here
    BY <2>2, <2>3, FaultyFacts DEF bad, v
  <2>5. Fit(case.kind, legit, bad)
    BY <2>2, <2>4, <1>3, MarkValues DEF Fit, Guard, k
  <2>6. Doubles = {} => Sound(case.kind, legit, bad) /\ SideFits(bad)
    BY <2>1, <2>2, <2>4, <1>3, GotOriginal, ValueFacts DEF Sound, SideFits, k
  <2> QED BY <1>8, <1>3, <2>5, <2>6, InjectWrite DEF Update
<1>9. CASE Create({"inject"}, "create", created, "ok", "error")
  <2>1. Map({"fault"}) \in Values
    BY MapValue DEF Atoms
  <2>2. made \in Objects
    BY <2>1, GoneFacts DEF made, Objects
  <2>3. created \in Objects /\ created.mark = Created
    BY <2>2, ApplyFacts DEF created
  <2>4. Fit(case.kind, legit, created)
    BY <2>3, <1>1, <1>3, MarkValues DEF Fit, Guard, k
  <2>5. Sound(case.kind, legit, created) /\ SideFits(created)
    BY <2>3, <1>3, ValueFacts DEF Sound, SideFits, k
  <2> QED BY <1>9, <1>3, <2>4, <2>5, InjectWrite DEF Create
<1>10. CASE closure.was.here /\ Get({"cleanup"}, again)
  <2>1. again = "ok" => Clean(case.kind, legit, obj)
    BY <1>6 DEF Clean
  <2> QED BY <2>1, <1>10, <1>3, <1>6, GetInPlace DEF Undo
<1>11. CASE DeleteTarget({"cleanup"}, "get", "ok", "ok", "error")
  BY <1>11, <1>3, UndoDelete DEF Undo
<1>12. CASE Update({"cleanup"}, "write", back, "ok")
  <2>1. got \in Objects /\ closure.was \in Objects /\ closure.was.val \in Values
    BY <1>4, Basics DEF got, Objects
  <2>2. closure.set /\ closure.was.here
    BY <1>12, <1>3 DEF OpInv, Knows, KnowsInPlace, Update, Write, Stands
  <2>3. /\ back \in Objects /\ back.mark = NoMark /\ back.val = closure.was.val
        /\ back.label # "chaos"
    BY <2>1, RestoredFacts DEF back
  <2>4. Fit(case.kind, legit, back)
    BY <2>3, <1>3, MarkValues DEF Fit, Guard, k
  <2>5. gaps = {} => Clean(case.kind, legit, back)
    BY <2>2, <2>3, <1>1, <1>3 DEF OpInv, SureBase, ClosureSound, Clean, Whole, Is, k
  <2> QED BY <1>12, <1>3, <2>3, <2>4, <2>5, UndoWrite DEF Update, Undo
<1>13. CASE GetMarked({"revert"})
  BY <1>13, <1>3, GetMarkedStep
<1>14. CASE DeleteTarget({"revert"}, "write", "ok", "ok", "error")
  BY <1>14, <1>3, UndoDelete DEF Undo
<1>15. CASE got.mark # Created /\ Update({"revert"}, "write", good, "ok")
  <2>1. Stands({"revert"}, "write")
    BY <1>15 DEF Update, Write
  <2>2. got.mark \in Values /\ got \in Objects /\ got.here
    BY <2>1, <1>1, <1>3, <1>15, GotMarked, MarkValues DEF k
  <2>3. /\ good \in Objects /\ good.mark = NoMark /\ good.val = got.mark
        /\ good.label # "chaos" /\ good.here
    BY <2>2, RestoredFacts DEF good
  <2>4. Fit(case.kind, legit, good)
    BY <2>3, <1>3, MarkValues DEF Fit, Guard, k
  <2>5. gaps = {} => Clean(case.kind, legit, good)
    BY <2>1, <2>2, <2>3, <1>1, <1>3, GotMarked DEF Clean, Whole, Sound, k
  <2> QED BY <1>15, <1>3, <2>3, <2>4, <2>5, UndoWrite DEF Update, Undo
<1> QED BY <1>2, <1>7, <1>8, <1>9, <1>10, <1>11, <1>12, <1>13, <1>14, <1>15

LEMMA OwnersGenuine ==
  ASSUME NEW L, NEW v, Owners(L, v), v.s # {}
  PROVE  GenuineIn(L, v)
  BY DEF Owners, GenuineIn

LEMMA OwnerRefOrphanStep ==
  ASSUME OpInv, OwnerRefOrphanInject \/ OwnerRefOrphanCleanup \/ OwnerRefOrphanRevert
  PROVE  OpInv' /\ Back
<1> DEFINE k == case.kind
           bad == ApplyChaosMetadata(With(obj, Map({})), got.val)
           look == IF obj.here /\ obj.val.s # {} THEN "write" ELSE "error"
           back(saved) == RemoveChaosMetadata(IF got.val.s = {} THEN With(obj, saved) ELSE obj)
<1>1. k = "OwnerRefOrphan"
  BY DEF OwnerRefOrphanInject, OwnerRefOrphanCleanup, OwnerRefOrphanRevert, Is
<1>2. \/ Get({"inject"}, look)
      \/ Patch({"inject"}, "write", bad, "ok")
      \/ GetExisting({"cleanup"})
      \/ Patch({"cleanup"}, "write", back(closure.was.val), "ok")
      \/ GetMarked({"revert"})
      \/ Patch({"revert"}, "write", back(got.mark), "ok")
  BY DEF OwnerRefOrphanInject, OwnerRefOrphanCleanup, OwnerRefOrphanRevert, RestoreOwners
<1>3. /\ Is(InPlace) /\ k \in Valued \ {"ClientFault"} /\ Is(ByClosure) /\ ~Is({"SecretDrift"})
      /\ ~Is(Webhooks) /\ ~Is(Deleting) /\ ~Is({"FinalizerBlock"}) /\ Is({"OwnerRefOrphan"})
      /\ ~Is({"LabelDelete"}) /\ ~Is({"ClientFault"}) /\ Is(ByClosure \ {"ClientFault"})
      /\ ~Is(Guarded \ {"OwnerRefOrphan"}) /\ Is(InPlace \ {"ClientFault"})
      /\ k \notin Diffed \cup Webhooks \cup {"FinalizerBlock", "LabelDelete"}
  BY <1>1 DEF Is, InPlace, Valued, Diffed, Webhooks, CRDs, ByClosure, Guarded, Deleting
<1>4. Base /\ Knows /\ obj \in Objects /\ obj.val \in Values /\ got.val \in Values
  BY Basics DEF OpInv, Objects, got
<1>5. /\ look \in {"write", "error"}
      /\ look = "write" => obj.here /\ obj.val.s # {}
  OBVIOUS
<1> HIDE DEF k, bad, look, back
<1>6. obj.here => Owners(legit, obj.val)
  BY <1>1, <1>4 DEF Base, Fits, Fit, Guard, k
<1>7. CASE Get({"inject"}, look)
  BY <1>7, <1>3, <1>5, GetInPlace DEF Undo
<1>8. CASE Patch({"inject"}, "write", bad, "ok")
  <2>1. Stands({"inject"}, "write")
    BY <1>8 DEF Patch, Write
  <2>2. got \in Objects /\ got.here /\ got.val \in Values /\ Owners(legit, got.val)
    BY <2>1, <1>1, <1>3, GotOriginal DEF Fit, Guard, k
  <2>3. got.val.s # {}
    BY <2>1, <1>3 DEF OpInv, Knows, KnowsInPlace, Stands, got
  <2>4. GenuineIn(legit, got.val)
    BY <2>2, <2>3, OwnersGenuine
  <2>5. Doubles = {}
    BY <2>1, <2>4, <1>3, GotOriginal
  <2>6. Map({}) \in Values /\ Owners(legit, Map({}))
    BY MapValue DEF Owners
  <2>7. /\ bad \in Objects /\ bad.val = Map({}) /\ bad.mark = got.val
    <3>1. obj \in Objects /\ Map({}) \in Values /\ got.val \in Values
      BY <2>2, <2>6, <1>4
    <3> QED BY <3>1, FaultyFacts DEF bad
  <2>8. Fit(case.kind, legit, bad)
    BY <2>2, <2>6, <2>7, <1>3, MarkValues DEF Fit, Guard, k
  <2>9. Sound(case.kind, legit, bad) /\ SideFits(bad)
    BY <2>2, <2>4, <2>7, <1>3, ValueFacts DEF Sound, SideFits, k
  <2> QED BY <1>8, <1>3, <2>5, <2>8, <2>9, InjectWrite DEF Patch
<1>9. CASE GetExisting({"cleanup"})
  BY <1>9, <1>3, GetExistingStep
<1>10. CASE GetMarked({"revert"})
  BY <1>10, <1>3, GetMarkedStep
<1>11. ASSUME NEW op, op \in Undo, NEW STATE saved, saved \in Values, Owners(legit, saved),
              gaps = {} => GenuineIn(legit, saved), Patch({op}, "write", back(saved), "ok")
       PROVE  OpInv' /\ Back
  <2> DEFINE v == IF got.val.s = {} THEN saved ELSE obj.val
             new == back(saved)
  <2>1. /\ new \in Objects /\ new.mark = NoMark /\ new.val = v /\ new.label # "chaos"
    BY <1>4, <1>11, RestoredFacts, RemoveFacts DEF back
  <2>2. call.op \in Undo /\ call.at = "write" /\ got.here
    BY <1>3, <1>11 DEF Patch, Write, Stands, OpInv, Knows, KnowsInPlace, Ends, got
  <2>3. obj.here => Owners(legit, v)
    BY <1>6, <1>11
  <2>4. obj.here => Fit(case.kind, legit, new)
    BY <2>1, <2>3, <1>3, ValueFacts, MarkValues DEF Fit, Guard, k
  <2>5. obj.here /\ gaps = {} => GenuineIn(legit, v)
    <3>1. CASE got.val.s = {}
      BY <3>1, <1>11
    <3>2. CASE got.val.s # {}
      <4>1. Owners(legit, got.val)
        BY <2>2, <1>1, <1>4 DEF Base, Fits, Fit, Guard, got, k
      <4>2. GenuineIn(legit, got.val)
        BY <3>2, <4>1, OwnersGenuine
      <4>3. obj.here /\ gaps = {} => obj.val = got.val \/ GenuineIn(legit, obj.val)
        BY <2>2, <1>3 DEF OpInv, Relies, ReliesInPlace, got
      <4> QED BY <3>2, <4>2, <4>3
    <3> QED BY <3>1, <3>2
  <2> HIDE DEF v, new
  <2>6. obj.here /\ gaps = {} => Clean(case.kind, legit, new)
    BY <2>1, <2>5, <1>1 DEF Clean, Whole, k
  <2>7. Write({op}, "write", obj.here, new, "ok", "error")
    BY <1>11 DEF Patch, new
  <2> QED BY <2>1, <2>4, <2>6, <2>7, <1>3, <1>11, UndoWrite
<1>12. CASE Patch({"cleanup"}, "write", back(closure.was.val), "ok")
  <2>1. call.op = "cleanup"
    BY <1>12 DEF Patch, Write, Stands
  <2>2. /\ closure.was.here /\ closure.was.val \in Values /\ Fit(case.kind, legit, closure.was)
        /\ gaps = {} => GenuineIn(legit, closure.was.val)
    BY <2>1, <1>3, Captured
  <2>3. Owners(legit, closure.was.val)
    BY <2>2, <1>1 DEF Fit, Guard, k
  <2> QED BY <2>2, <2>3, <1>11, <1>12 DEF Undo
<1>13. CASE Patch({"revert"}, "write", back(got.mark), "ok")
  <2>1. Stands({"revert"}, "write")
    BY <1>13 DEF Patch, Write
  <2>2. got.mark \in Values /\ got.here /\ Fit(case.kind, legit, got)
    BY <2>1, <1>3, GotMarked, MarkValues DEF k
  <2>3. Owners(legit, got.mark) /\ (gaps = {} => GenuineIn(legit, got.mark))
    BY <2>1, <2>2, <1>1, <1>3, GotMarked DEF Fit, Guard, Sound, k
  <2> QED BY <2>2, <2>3, <1>11, <1>13 DEF Undo
<1> QED BY <1>2, <1>7, <1>8, <1>9, <1>10, <1>12, <1>13

LEMMA LabelStompingStep ==
  ASSUME OpInv, LabelStompingInject \/ LabelStompingCleanup \/ LabelStompingRevert
  PROVE  OpInv' /\ Back
<1> DEFINE k == case.kind
           bad == ApplyChaosMetadata(With(obj, case.fault), got.val)
           look == IF obj.here /\ (Is({"LabelDelete"}) => obj.val # Absent)
                   THEN "write" ELSE "error"
           back(saved) == RemoveChaosMetadata(With(obj, saved))
<1>1. k \in {"LabelOverwrite", "LabelDelete"}
  BY DEF LabelStompingInject, LabelStompingCleanup, LabelStompingRevert, Is
<1>2. \/ Get({"inject"}, look)
      \/ Patch({"inject"}, "write", bad, "ok")
      \/ GetExisting({"cleanup"})
      \/ Patch({"cleanup"}, "write", back(closure.was.val), "ok")
      \/ GetMarked({"revert"})
      \/ Patch({"revert"}, "write", back(got.mark), "ok")
  BY DEF LabelStompingInject, LabelStompingCleanup, LabelStompingRevert
<1>3. /\ Is(InPlace) /\ k \in Valued \ {"ClientFault"} /\ Is(ByClosure) /\ ~Is({"SecretDrift"})
      /\ ~Is(Webhooks) /\ ~Is(Deleting) /\ ~Is({"FinalizerBlock"}) /\ ~Is({"OwnerRefOrphan"})
      /\ ~Is({"ClientFault"}) /\ Is(ByClosure \ {"ClientFault"})
      /\ Is(InPlace \ {"ClientFault"}) /\ (Is(Guarded) => k = "LabelDelete")
      /\ (Is({"LabelDelete"}) <=> k = "LabelDelete")
      /\ k \notin Diffed \cup Webhooks \cup {"FinalizerBlock", "OwnerRefOrphan"}
  BY <1>1 DEF Is, InPlace, Valued, Diffed, Webhooks, CRDs, ByClosure, Guarded, Deleting
<1>4. Base /\ Knows /\ obj \in Objects /\ obj.val \in Values /\ case.fault \in Values
  BY Basics DEF OpInv, Objects
<1>5. /\ look \in {"write", "error"}
      /\ look = "write" => obj.here /\ (Is({"LabelDelete"}) => obj.val # Absent)
  OBVIOUS
<1> HIDE DEF k, bad, look, back
<1>6. CASE Get({"inject"}, look)
  BY <1>6, <1>3, <1>5, GetInPlace DEF Undo
<1>7. CASE Patch({"inject"}, "write", bad, "ok")
  <2>1. Stands({"inject"}, "write")
    BY <1>7 DEF Patch, Write
  <2>2. got \in Objects /\ got.here /\ got.val \in Values
        /\ (k = "LabelDelete" => got.val \in legit \cup {Absent})
    BY <2>1, <1>3, GotOriginal DEF Fit, Guard, k
  <2>3. k = "LabelDelete" => got.val # Absent /\ case.fault = Absent
    BY <2>1, <1>3, <1>4, Basics, CasesAssumption DEF OpInv, Knows, KnowsInPlace, Stands, got, k
  <2>4. k = "LabelDelete" => GenuineIn(legit, got.val)
    BY <2>2, <2>3 DEF GenuineIn
  <2>5. Is(Guarded) => Doubles = {}
    BY <2>1, <2>4, <1>3, GotOriginal
  <2>6. /\ bad \in Objects /\ bad.val = case.fault /\ bad.mark = got.val
    <3>1. obj \in Objects /\ case.fault \in Values /\ got.val \in Values
      BY <2>2, <1>4
    <3> QED BY <3>1, FaultyFacts DEF bad
  <2>7. Fit(case.kind, legit, bad)
    BY <2>2, <2>3, <2>6, <1>3, MarkValues DEF Fit, Guard, k
  <2>8. Doubles = {} => Sound(case.kind, legit, bad) /\ SideFits(bad)
    BY <2>1, <2>2, <2>6, <1>3, GotOriginal, ValueFacts DEF Sound, SideFits, k
  <2> QED BY <1>7, <1>3, <2>5, <2>7, <2>8, InjectWrite DEF Patch
<1>8. CASE GetExisting({"cleanup"})
  BY <1>8, <1>3, GetExistingStep
<1>9. CASE GetMarked({"revert"})
  BY <1>9, <1>3, GetMarkedStep
<1>10. ASSUME NEW op, op \in Undo, NEW STATE saved, saved \in Values,
              k = "LabelDelete" => saved \in legit \cup {Absent},
              gaps = {} => GenuineIn(legit, saved), Patch({op}, "write", back(saved), "ok")
       PROVE  OpInv' /\ Back
  <2> DEFINE new == back(saved)
  <2>1. /\ new \in Objects /\ new.mark = NoMark /\ new.val = saved /\ new.label # "chaos"
    BY <1>4, <1>10, RestoredFacts DEF back
  <2>2. Write({op}, "write", obj.here, new, "ok", "error")
    BY <1>10 DEF Patch
  <2> HIDE DEF new
  <2>3. Fit(case.kind, legit, new)
    BY <2>1, <1>3, <1>10, ValueFacts, MarkValues DEF Fit, Guard, k
  <2>4. gaps = {} => Clean(case.kind, legit, new)
    BY <2>1, <1>1, <1>10 DEF Clean, Whole, k
  <2> QED BY <2>1, <2>2, <2>3, <2>4, <1>3, <1>10, UndoWrite
<1>11. CASE Patch({"cleanup"}, "write", back(closure.was.val), "ok")
  <2>1. call.op = "cleanup"
    BY <1>11 DEF Patch, Write, Stands
  <2>2. /\ closure.was.here /\ closure.was.val \in Values /\ Fit(case.kind, legit, closure.was)
        /\ gaps = {} => GenuineIn(legit, closure.was.val)
    BY <2>1, <1>3, Captured
  <2>3. k = "LabelDelete" => closure.was.val \in legit \cup {Absent}
    BY <2>2 DEF Fit, Guard, k
  <2> QED BY <2>2, <2>3, <1>10, <1>11 DEF Undo
<1>12. CASE Patch({"revert"}, "write", back(got.mark), "ok")
  <2>1. Stands({"revert"}, "write")
    BY <1>12 DEF Patch, Write
  <2>2. got.mark \in Values /\ got.here /\ Fit(case.kind, legit, got)
    BY <2>1, <1>3, GotMarked, MarkValues DEF k
  <2>3. /\ k = "LabelDelete" => got.mark \in legit \cup {Absent}
        /\ gaps = {} => GenuineIn(legit, got.mark)
    BY <2>1, <2>2, <1>3, GotMarked DEF Fit, Guard, Sound, k
  <2> QED BY <2>2, <2>3, <1>10, <1>12 DEF Undo
<1> QED BY <1>2, <1>6, <1>7, <1>8, <1>9, <1>11, <1>12

LEMMA DiffedStep ==
  ASSUME OpInv, \/ ScaleZeroInject \/ CrashLoopInject \/ ImageCorruptInject
                \/ ScaleZeroRestore \/ CrashLoopRestore \/ ImageCorruptRestore
  PROVE  OpInv' /\ Back
<1> DEFINE k == case.kind
           new(v, mark) == [obj EXCEPT !.val = IF got.val = v THEN @ ELSE v, !.mark = mark]
           bad == new(case.fault, got.val)
           good == new(got.mark, NoMark)
<1>1. k \in Diffed
  BY DEF ScaleZeroInject, CrashLoopInject, ImageCorruptInject,
         ScaleZeroRestore, CrashLoopRestore, ImageCorruptRestore, Is, Diffed
<1>2. \/ GetExisting({"inject"})
      \/ Patch({"inject"}, "write", bad, "ok")
      \/ GetMarked(Undo)
      \/ Patch(Undo, "write", good, "ok")
  BY DEF ScaleZeroInject, CrashLoopInject, ImageCorruptInject,
         ScaleZeroRestore, CrashLoopRestore, ImageCorruptRestore, PatchDiff
<1>3. /\ Is(InPlace) /\ k \in Valued \ {"ClientFault"} /\ ~Is(ByClosure) /\ ~Is({"SecretDrift"})
      /\ ~Is(Webhooks) /\ ~Is(Deleting) /\ ~Is(Guarded) /\ ~Is({"FinalizerBlock"})
      /\ k \notin Webhooks \cup {"FinalizerBlock", "OwnerRefOrphan", "LabelDelete"}
  BY <1>1 DEF Is, InPlace, Valued, Diffed, Webhooks, CRDs, ByClosure, Guarded, Deleting
<1>4. Base /\ Knows /\ obj \in Objects /\ obj.val \in Values /\ case.fault \in Values
  BY Basics DEF OpInv, Objects
<1>5. ASSUME NEW STATE v, v \in Values, NEW STATE m, m \in Values \cup {NoMark}
      PROVE  /\ new(v, m) \in Objects /\ new(v, m).mark = m /\ new(v, m).label = obj.label
             /\ new(v, m).val = IF got.val = v THEN obj.val ELSE v
  BY <1>4, <1>5 DEF Objects
<1>6. gaps = {} /\ obj.here => obj.label # "chaos"
  BY <1>1 DEF OpInv, SureBase, Sound, k
<1> HIDE DEF k, new
<1>7. CASE Patch({"inject"}, "write", bad, "ok")
  <2>1. Stands({"inject"}, "write")
    BY <1>7 DEF Patch, Write
  <2>2. got \in Objects /\ got.here /\ got.val \in Values
    BY <2>1, <1>3, GotOriginal
  <2>3. bad \in Objects /\ bad.mark = got.val /\ bad.label = obj.label
    BY <2>2, <1>4, <1>5
  <2> HIDE DEF bad
  <2>4. Fit(case.kind, legit, bad)
    BY <2>2, <2>3, <1>3, MarkValues DEF Fit, Guard, k
  <2>5. obj.here /\ gaps = {} /\ Doubles = {} => Sound(case.kind, legit, bad) /\ SideFits(bad)
    BY <2>1, <2>2, <2>3, <1>3, <1>6, GotOriginal, ValueFacts DEF Sound, SideFits, k
  <2> QED BY <1>7, <1>3, <2>4, <2>5, InjectWrite DEF Patch
<1>8. CASE Patch(Undo, "write", good, "ok")
  <2>1. Stands(Undo, "write")
    BY <1>8 DEF Patch, Write
  <2>2. got.mark \in Values /\ got \in Objects /\ got.here
    BY <2>1, <1>3, GotMarked, MarkValues DEF k
  <2>3. /\ good \in Objects /\ good.mark = NoMark /\ good.label = obj.label
        /\ good.val = IF got.val = got.mark THEN obj.val ELSE got.mark
    BY <2>2, <1>5
  <2> HIDE DEF good
  <2>4. Fit(case.kind, legit, good)
    BY <2>3, <1>3, MarkValues DEF Fit, Guard, k
  <2>5. gaps = {} => GenuineIn(legit, got.mark)
    BY <2>1, <2>2, <1>3, GotMarked DEF Sound, k
  <2>6. obj.here /\ gaps = {} => obj.val = got.val \/ GenuineIn(legit, obj.val)
    BY <2>1, <1>3 DEF OpInv, Relies, ReliesInPlace, Stands, got
  <2>7. obj.here /\ gaps = {} => Clean(case.kind, legit, good)
    BY <2>3, <2>5, <2>6, <1>3, <1>6 DEF Clean, Whole, k
  <2> QED BY <1>8, <1>3, <2>3, <2>4, <2>7, UndoWrite DEF Patch
<1>9. CASE GetExisting({"inject"})
  BY <1>9, <1>3, GetExistingStep
<1>10. CASE GetMarked(Undo)
  BY <1>10, <1>3, GetMarkedStep
<1> QED BY <1>2, <1>7, <1>8, <1>9, <1>10

LEMMA SecretWrite ==
  ASSUME OpInv, Is({"SecretDrift"}),
         \/ WriteSide({"inject"}, "save", Backup(got.val), "write", "error")
         \/ WriteSide(Undo, "drop", NoBackup, "unmark", "error")
  PROVE  OpInv' /\ Back
<1> USE DEF Places
<1>1. Base /\ Knows /\ call \in Calls /\ got.val \in Values
  BY Basics DEF OpInv, got, Objects
<1>2. /\ Is(InPlace) /\ ~Is(Deleting) /\ ~Is(Guarded) /\ ~Is(CRDs) /\ ~Is({"NamespaceDeletion"})
      /\ ~Is(Webhooks) /\ ~Is({"FinalizerBlock"}) /\ ~Is({"OwnerRefOrphan"})
      /\ ~Is({"LabelDelete"}) /\ ~Is({"ClientFault"}) /\ ~Is({"PDBBlock", "QuotaExhaustion"})
      /\ ~Is({"WebhookLatency"}) /\ ~Is(ByClosure)
  BY DEF Is, InPlace, Deleting, Guarded, CRDs, Webhooks, ByClosure
<1>3. CASE WriteSide({"inject"}, "save", Backup(got.val), "write", "error")
  <2>1. /\ Stands({"inject"}, "save") /\ call' \in Calls /\ Held
        /\ \/ side' = Backup(got.val) /\ call'.at = "write"
           \/ side' \in {side, Backup(got.val)} /\ call'.at = "error"
        /\ gaps' = IF side' = side THEN gaps ELSE gaps \cup Doubles
        /\ UNCHANGED <<case, obj, parts, closure, legit, taken, edits>>
    BY <1>1, <1>3, WriteSideStep
  <2>2. Doubles \subseteq {"doubled"}
    BY DEF Doubles
  <2>3. Base'
    BY <1>1, <1>2, <2>1, <2>2, SideKeeps
  <2>4. got.here /\ call.op = "inject"
    BY <1>1, <1>2, <2>1 DEF Knows, KnowsInPlace, Ends, Stands, got
  <2>5. Knows'
    BY <1>1, <1>2, <2>1, <2>4 DEF Knows, KnowsInPlace, Ends, Stands, Held, Kept, Is, Undo, got
  <2>6. ASSUME gaps' = {} PROVE SureBase' /\ Relies'
    <3>1. gaps = {} /\ SureBase
      BY <2>1, <2>6 DEF OpInv
    <3>2. side' # side => side' = Backup(got.val) /\ GenuineIn(legit, got.val)
      BY <2>1, <2>4, <2>6, <1>2, GenuineIs DEF Doubles
    <3>3. Backup(got.val).here /\ Backup(got.val).val = got.val
      BY DEF Backup
    <3>4. SideSound'
      BY <3>1, <3>2, <3>3, <2>1, <1>1, <1>2 DEF SureBase, SideSound, SideFits, Is, Base, SideKnown
    <3>5. SureBase'
      BY <3>1, <3>4, <2>1 DEF SureBase, ClosureSound, Held, Is
    <3>6. Relies'
      BY <2>1, <2>4, <3>3, <1>2 DEF Relies, ReliesInPlace, Held, Kept, Is, Undo
    <3> QED BY <3>5, <3>6
  <2>7. Back
    BY <2>1 DEF Back
  <2> QED BY <2>3, <2>5, <2>6, <2>7 DEF OpInv
<1>4. CASE WriteSide(Undo, "drop", NoBackup, "unmark", "error")
  <2>1. /\ Stands(Undo, "drop") /\ call' \in Calls /\ Held
        /\ \/ side' = NoBackup /\ call'.at = "unmark"
           \/ side' \in {side, NoBackup} /\ call'.at = "error"
        /\ gaps' = IF side' = side THEN gaps ELSE gaps \cup Doubles
        /\ UNCHANGED <<case, obj, parts, closure, legit, taken, edits>>
    BY <1>1, <1>4, WriteSideStep
  <2>2. Doubles = {}
    BY <2>1 DEF Doubles, Stands, Undo
  <2>3. Base' /\ gaps' = gaps
    BY <1>1, <1>2, <2>1, <2>2, SideKeeps
  <2>4. call.op \in Undo /\ call'.op \in Undo
    BY <2>1 DEF Stands, Held, Kept
  <2>5. Knows'
    BY <1>1, <1>2, <2>1, <2>4 DEF Knows, KnowsInPlace, Ends, Stands, Held, Kept, Is, Undo
  <2>6. ASSUME gaps' = {} PROVE SureBase' /\ Relies'
    <3>1. SureBase /\ (obj.here => GenuineIn(legit, obj.val))
      BY <2>1, <2>3, <2>6, <1>2 DEF OpInv, Relies, ReliesInPlace, Stands
    <3>2. ~NoBackup.here
      BY DEF NoBackup
    <3>3. SideSound'
      BY <3>1, <3>2, <2>1, <1>1, <1>2 DEF SureBase, SideSound, SideFits, Is, Base, SideKnown
    <3>4. SureBase'
      BY <3>1, <3>3, <2>1 DEF SureBase, ClosureSound, Held, Is
    <3>5. Relies'
      BY <3>1, <2>1, <2>4, <1>2 DEF Relies, ReliesInPlace, Held, Kept, Is, Undo
    <3> QED BY <3>4, <3>5
  <2>7. Back
    BY <2>1 DEF Back
  <2> QED BY <2>3, <2>5, <2>6, <2>7 DEF OpInv
<1> QED BY <1>3, <1>4

LEMMA SecretStep ==
  ASSUME OpInv, SecretInject \/ SecretRevert
  PROVE  OpInv' /\ Back
<1> DEFINE k == case.kind
           look == IF obj.here THEN "save" ELSE "error"
           found == IF side.here THEN "restore" ELSE "unmark"
           bad == ApplyChaosMetadata(With(got, case.fault), Ref)
           back == With(got, call.copy)
           good == RemoveChaosMetadata(obj)
<1>1. k = "SecretDrift"
  BY DEF SecretInject, SecretRevert, Is
<1>2. \/ Get({"inject"}, look)
      \/ WriteSide({"inject"}, "save", Backup(got.val), "write", "error")
      \/ Update({"inject"}, "write", bad, "ok")
      \/ GetMarked(Undo)
      \/ ReadSide(Undo, "write", found)
      \/ Update(Undo, "restore", back, "drop")
      \/ WriteSide(Undo, "drop", NoBackup, "unmark", "error")
      \/ Update(Undo, "unmark", good, "ok")
  BY DEF SecretInject, SecretRevert
<1>3. /\ Is(InPlace) /\ ~Is(ByClosure) /\ Is({"SecretDrift"}) /\ ~Is(Webhooks) /\ ~Is(CRDs)
      /\ ~Is({"ClientFault"}) /\ ~Is({"FinalizerBlock"}) /\ ~Is({"OwnerRefOrphan"})
      /\ ~Is({"LabelDelete"}) /\ ~Is(Deleting) /\ ~Is(Guarded)
      /\ ~Is({"PDBBlock", "QuotaExhaustion"}) /\ ~Is({"WebhookLatency"})
      /\ k \notin Diffed \cup Webhooks \cup Valued \cup
                  {"FinalizerBlock", "OwnerRefOrphan", "LabelDelete"}
  BY <1>1 DEF Is, InPlace, Valued, Diffed, Webhooks, CRDs, ByClosure, Guarded, Deleting
<1>4. /\ Base /\ Knows /\ call \in Calls /\ obj \in Objects /\ case.fault \in Values
      /\ got \in Objects /\ call.copy \in Values /\ side.val \in Values
  BY Basics DEF OpInv, Calls, got
<1>5. look \in {"save", "error"} /\ (look = "save" => obj.here)
  OBVIOUS
<1>6. found \in {"restore", "unmark"} /\ (found = "restore" <=> side.here)
  OBVIOUS
<1> HIDE DEF k, look, found, bad, back, good
<1>7. CASE Get({"inject"}, look)
  BY <1>7, <1>3, <1>5, GetInPlace DEF Undo
<1>8. CASE GetMarked(Undo)
  BY <1>8, <1>3, GetMarkedStep
<1>9. CASE Update({"inject"}, "write", bad, "ok")
  <2>1. Stands({"inject"}, "write")
    BY <1>9 DEF Update, Write
  <2>2. /\ bad \in Objects /\ bad.mark = Ref
    <3>1. got \in Objects /\ case.fault \in Values
      BY <1>4
    <3> QED BY <3>1, FaultyFacts DEF bad
  <2>3. Fit(case.kind, legit, bad)
    BY <2>2, <1>1, <1>3, MarkValues DEF Fit, Guard, k
  <2>4. gaps = {} => side.here
    BY <2>1, <1>3 DEF OpInv, Relies, ReliesInPlace, Stands
  <2>5. gaps = {} => Sound(case.kind, legit, bad) /\ SideFits(bad)
    BY <2>2, <2>4, <1>3, ValueFacts DEF Sound, SideFits, k
  <2> QED BY <1>9, <1>3, <2>3, <2>5, InjectWrite DEF Update
<1>10. ASSUME call.op \in Undo, call.at \in {"write", "restore"}
       PROVE  got.here /\ got.mark = Ref /\ Fit(case.kind, legit, got)
  <2>1. got.here /\ got.mark \notin {NoMark, Corrupt}
    BY <1>3, <1>4, <1>10 DEF Knows, KnowsInPlace, Ends, got
  <2> QED BY <2>1, <1>1, <1>3, <1>4, MarkValues DEF Base, Fits, Fit, got, k
<1>11. CASE ReadSide(Undo, "write", found)
  <2> USE DEF Places
  <2>1. /\ Stands(Undo, "write") /\ call' \in Calls /\ Kept
        /\ call'.got = call.got /\ call'.stale = call.stale
        /\ \/ call'.at = found /\ call'.copy = side.val
           \/ call'.at = "error" /\ call'.copy = call.copy
        /\ UNCHANGED <<case, obj, side, parts, closure, legit, taken, gaps, edits>>
    BY <1>4, <1>6, <1>11, ReadSideStep
  <2>2. Base' /\ gaps' = gaps /\ (gaps' = {} => SureBase')
    BY <1>6, <1>11, ReadSideKeeps
  <2>3. call.op \in Undo /\ call'.op \in Undo /\ got.here /\ got.mark = Ref
    BY <2>1, <1>10 DEF Stands, Kept
  <2>4. Knows'
    BY <1>3, <1>4, <1>6, <2>1, <2>3 DEF Knows, KnowsInPlace, Ends, Stands, Kept, Is, Undo
  <2>5. ASSUME gaps' = {} PROVE Relies'
    <3>1. side.here => GenuineIn(legit, side.val)
      BY <2>2, <2>5, <1>3 DEF OpInv, SureBase, SideSound
    <3>2. ~side.here /\ ~call.stale /\ obj.here => GenuineIn(legit, obj.val)
      BY <2>1, <2>2, <2>3, <2>5, <1>3, <1>4
      DEF OpInv, SureBase, SideSound, SideFits, Knows, Stands, got
    <3> QED BY <2>1, <2>3, <3>1, <3>2, <1>3, <1>6 DEF Relies, ReliesInPlace, Is, Undo
  <2>6. Back
    BY <2>1, <1>6 DEF Back
  <2> QED BY <2>2, <2>4, <2>5, <2>6 DEF OpInv
<1>12. CASE Update(Undo, "restore", back, "drop")
  <2>1. call.op \in Undo /\ call.at = "restore"
    BY <1>12 DEF Update, Write, Stands
  <2>2. back \in Objects /\ back.mark = Ref /\ back.val = call.copy
    BY <2>1, <1>4, <1>10, WithFacts DEF back
  <2>3. Fit(case.kind, legit, back)
    BY <2>2, <1>1, <1>3, MarkValues DEF Fit, Guard, k
  <2>4. gaps = {} => GenuineIn(legit, call.copy)
    BY <2>1, <1>3 DEF OpInv, Relies, ReliesInPlace
  <2>5. gaps = {} => Sound(case.kind, legit, back) /\ SideFits(back)
    BY <2>2, <2>4, <1>3, ValueFacts DEF Sound, SideFits, k
  <2> QED BY <1>12, <1>3, <2>2, <2>3, <2>4, <2>5, MidWrite DEF Update
<1>13. CASE Update(Undo, "unmark", good, "ok")
  <2>1. /\ good \in Objects /\ good.mark = NoMark /\ good.val = obj.val /\ good.label = "none"
    BY <1>4, RemoveFacts DEF good
  <2>2. Fit(case.kind, legit, good)
    BY <2>1, <1>1, <1>3, MarkValues DEF Fit, Guard, k
  <2>3. gaps = {} /\ obj.here /\ ~call.stale => GenuineIn(legit, obj.val)
    BY <1>3, <1>13 DEF Update, Write, Stands, OpInv, Relies, ReliesInPlace
  <2>4. gaps = {} /\ obj.here /\ ~call.stale => Clean(case.kind, legit, good)
    BY <2>1, <2>3, <1>1 DEF Clean, Whole, k
  <2> QED BY <1>13, <1>3, <2>1, <2>2, <2>4, UndoWrite DEF Update
<1> QED BY <1>2, <1>3, <1>7, <1>8, <1>9, <1>11, <1>12, <1>13, SecretWrite

\* A merge of two originals has no key that is not from an original.
LEMMA MergeGenuine ==
  ASSUME NEW L, NEW v \in Values, NEW w \in Values, GenuineIn(L, w),
         v = Absent \/ GenuineIn(L, v)
  PROVE  GenuineIn(L, MergeValue(v, w))
<1>1. CASE ~(v.t = "map" /\ w.t = "map")
  BY <1>1 DEF MergeValue
<1>2. CASE v.t = "map" /\ w.t = "map"
  <2> DEFINE m == Map(v.s \cup w.s)
  <2>1. MergeValue(v, w) = m /\ m.t = "map" /\ m.s = v.s \cup w.s
    BY <1>2 DEF MergeValue, Map
  <2>2. GenuineIn(L, v)
    BY <1>2 DEF Absent
  <2>3. v.s \subseteq Keys(L) /\ w.s \subseteq Keys(L)
    BY <2>2 DEF GenuineIn, Keys
  <2>4. CASE m.s # {}
    BY <2>1, <2>3, <2>4 DEF GenuineIn
  <2>5. CASE m.s = {}
    <3>1. w.s = {} /\ v.s = {}
      BY <2>1, <2>5
    <3>2. v \in L
      BY <2>2, <3>1 DEF GenuineIn
    <3>3. v = Map({})
      BY <1>2, <3>1 DEF Values, Absent, Map
    <3>4. v.s \cup w.s = {}
      BY <3>1
    <3>5. MergeValue(v, w) = Map(v.s \cup w.s)
      BY <1>2 DEF MergeValue
    <3>6. MergeValue(v, w) = v
      BY <3>3, <3>4, <3>5 DEF Map
    <3> QED BY <3>2, <3>6 DEF GenuineIn
  <2> QED BY <2>4, <2>5
<1> QED BY <1>1, <1>2

LEMMA RestoreFieldStep ==
  ASSUME OpInv, Is(CRDs), NEW op, op \in Undo, NEW STATE saved, RestoreField({op}, saved),
         call.op = op /\ call.at \notin Ends =>
             saved \in Values /\ (gaps = {} => GenuineIn(legit, saved))
  PROVE  OpInv' /\ Back
<1> DEFINE k == case.kind
           good == RemoveChaosMetadata(With(obj, saved))
           bare == With(obj, Absent)
           merged == RemoveChaosMetadata(With(obj, MergeValue(obj.val, saved)))
           plain == RemoveChaosMetadata(obj)
           there == IF obj.here THEN "restore" ELSE "error"
<1>1. \/ Patch({op}, "write", good, "ok")
      \/ saved.t = "map" /\ Patch({op}, "write", bare, "refetch")
      \/ saved.t = "absent" /\ Patch({op}, "write", bare, "unmark")
      \/ Look({op}, "refetch", there)
      \/ Patch({op}, "restore", merged, "ok")
      \/ Patch({op}, "unmark", plain, "ok")
  BY DEF RestoreField
<1>2. /\ Is(InPlace) /\ k \in Valued \ {"ClientFault"} /\ Is(ByClosure) /\ ~Is({"SecretDrift"})
      /\ ~Is(Webhooks) /\ ~Is(Deleting) /\ ~Is({"FinalizerBlock"}) /\ ~Is({"OwnerRefOrphan"})
      /\ ~Is({"LabelDelete"}) /\ ~Is({"ClientFault"}) /\ ~Is(Guarded)
      /\ ~Is({"PDBBlock", "QuotaExhaustion"}) /\ ~Is({"WebhookLatency"})
      /\ k \notin Diffed \cup Webhooks \cup {"FinalizerBlock", "OwnerRefOrphan", "LabelDelete"}
      /\ k # "FinalizerBlock"
  BY DEF Is, InPlace, Valued, Diffed, Webhooks, CRDs, ByClosure, Guarded, Deleting
<1>3. Base /\ Knows /\ call \in Calls /\ obj \in Objects /\ obj.val \in Values
      /\ (obj.here => Fit(k, legit, obj))
  BY Basics DEF OpInv, Objects, Base, Fits
<1>4. there \in {"restore", "error"} /\ (there = "restore" => obj.here)
  OBVIOUS
<1> HIDE DEF k, good, bare, merged, plain, there
<1>5. call.op = op /\ call.at \notin Ends
  BY <1>1 DEF Patch, Write, Look, Stands, Ends
<1>6. /\ saved \in Values /\ (gaps = {} => GenuineIn(legit, saved))
      /\ MergeValue(obj.val, saved) \in Values
  BY <1>3, <1>5, MergeFacts
<1>7. CASE Patch({op}, "write", good, "ok")
  <2>1. /\ good \in Objects /\ good.mark = NoMark /\ good.val = saved /\ good.label # "chaos"
    BY <1>3, <1>6, RestoredFacts DEF good
  <2>2. Fit(case.kind, legit, good)
    BY <2>1, <1>2, MarkValues DEF Fit, Guard, k
  <2>3. gaps = {} => Clean(case.kind, legit, good)
    BY <2>1, <1>2, <1>6 DEF Clean, Whole, k
  <2> QED BY <1>7, <1>2, <2>1, <2>2, <2>3, UndoWrite DEF Patch
<1>8. bare \in Objects /\ bare.mark = obj.mark /\ bare.val = Absent /\ bare.here = obj.here
      /\ bare.label = obj.label
  BY <1>3, ValueFacts, WithFacts DEF bare
<1>9. obj.here => Fit(case.kind, legit, bare)
  BY <1>2, <1>3, <1>8 DEF Fit, Guard, k
<1>10. ASSUME obj.here, gaps = {}, bare.mark = NoMark => GenuineIn(legit, Absent)
       PROVE  Sound(case.kind, legit, bare) /\ SideFits(bare)
  BY <1>2, <1>8, <1>10 DEF OpInv, SureBase, Sound, SideFits, Whole, k
<1>11. CASE saved.t = "map" /\ Patch({op}, "write", bare, "refetch")
  <2>1. Nulls(bare) = {} /\ bare.mark = NoMark => GenuineIn(legit, Absent)
    BY <1>2, <1>5, <1>8 DEF Nulls, GenuineIn
  <2> QED BY <2>1, <1>2, <1>8, <1>9, <1>10, <1>11, MidWrite DEF Patch
<1>12. CASE saved.t = "absent" /\ Patch({op}, "write", bare, "unmark")
  <2>1. saved = Absent
    BY <1>6, <1>12 DEF Values
  <2>2. gaps = {} => GenuineIn(legit, Absent)
    BY <2>1, <1>6
  <2> QED BY <2>2, <1>2, <1>8, <1>9, <1>10, <1>12, MidWrite DEF Patch
<1>13. CASE Look({op}, "refetch", there)
  <2> USE DEF Places
  <2>1. /\ Stands({op}, "refetch") /\ call' \in Calls /\ Held /\ call'.at \in {there, "error"}
        /\ UNCHANGED <<case, obj, side, parts, closure, legit, taken, gaps, edits>>
    BY <1>3, <1>4, <1>13, LookStep
  <2>2. Base' /\ gaps' = gaps /\ (gaps' = {} => SureBase')
    BY <1>4, <1>13, LookKeeps
  <2>3. Knows'
    BY <1>2, <1>3, <1>4, <2>1 DEF Knows, KnowsInPlace, Ends, Stands, Held, Kept, Is, Undo
  <2>4. ASSUME gaps' = {} PROVE Relies'
    BY <2>1, <2>2, <2>4, <1>2, <1>4, <1>5 DEF OpInv, Relies, ReliesInPlace, Stands, Held, Kept, Is, Undo
  <2>5. Back
    BY <2>1, <1>4 DEF Back
  <2> QED BY <2>2, <2>3, <2>4, <2>5 DEF OpInv
<1>14. CASE Patch({op}, "restore", merged, "ok")
  <2> DEFINE v == MergeValue(obj.val, saved)
  <2>1. /\ merged \in Objects /\ merged.mark = NoMark /\ merged.val = v /\ merged.label # "chaos"
    BY <1>3, <1>6, RestoredFacts DEF merged
  <2>2. call.at = "restore"
    BY <1>14 DEF Patch, Write, Stands
  <2>3. gaps = {} /\ obj.here => obj.val = Absent \/ GenuineIn(legit, obj.val)
    BY <2>2, <1>2 DEF OpInv, Relies, ReliesInPlace
  <2>4. gaps = {} /\ obj.here => GenuineIn(legit, v)
    BY <2>3, <1>3, <1>6, MergeGenuine
  <2> HIDE DEF v
  <2>5. Fit(case.kind, legit, merged)
    BY <2>1, <1>2, MarkValues DEF Fit, Guard, k
  <2>6. gaps = {} /\ obj.here => Clean(case.kind, legit, merged)
    BY <2>1, <2>4, <1>2 DEF Clean, Whole, k
  <2> QED BY <1>14, <1>2, <2>1, <2>5, <2>6, UndoWrite DEF Patch
<1>15. CASE Patch({op}, "unmark", plain, "ok")
  <2>1. /\ plain \in Objects /\ plain.mark = NoMark /\ plain.val = obj.val /\ plain.label = "none"
    BY <1>3, RemoveFacts DEF plain
  <2>2. call.at = "unmark"
    BY <1>15 DEF Patch, Write, Stands
  <2>3. gaps = {} /\ obj.here => GenuineIn(legit, obj.val)
    BY <2>2, <1>2 DEF OpInv, Relies, ReliesInPlace
  <2>4. Fit(case.kind, legit, plain)
    BY <2>1, <1>2, MarkValues DEF Fit, Guard, k
  <2>5. gaps = {} /\ obj.here => Clean(case.kind, legit, plain)
    BY <2>1, <2>3, <1>2 DEF Clean, Whole, k
  <2> QED BY <1>15, <1>2, <2>1, <2>4, <2>5, UndoWrite DEF Patch
<1> QED BY <1>1, <1>7, <1>11, <1>12, <1>13, <1>14, <1>15

LEMMA CRDMutationStep ==
  ASSUME OpInv, CRDMutationInject \/ CRDMutationCleanup \/ CRDMutationRevert
  PROVE  OpInv' /\ Back
<1> DEFINE k == case.kind
           bad == ApplyChaosMetadata(With(obj, MergeValue(obj.val, case.fault)), got.val)
<1>1. k \in CRDs
  BY DEF CRDMutationInject, CRDMutationCleanup, CRDMutationRevert, Is, CRDs
<1>2. \/ GetExisting({"inject"})
      \/ Patch({"inject"}, "write", bad, "ok")
      \/ GetExisting({"cleanup"})
      \/ RestoreField({"cleanup"}, closure.was.val)
      \/ GetMarked({"revert"})
      \/ RestoreField({"revert"}, got.mark)
  BY DEF CRDMutationInject, CRDMutationCleanup, CRDMutationRevert
<1>3. /\ Is(InPlace) /\ k \in Valued \ {"ClientFault"} /\ Is(ByClosure) /\ ~Is({"SecretDrift"})
      /\ ~Is(Webhooks) /\ ~Is(Deleting) /\ ~Is({"FinalizerBlock"}) /\ ~Is({"OwnerRefOrphan"})
      /\ ~Is({"LabelDelete"}) /\ ~Is({"ClientFault"}) /\ ~Is(Guarded) /\ Is(CRDs)
      /\ Is(InPlace \ {"ClientFault"}) /\ Is(ByClosure \ {"ClientFault"})
      /\ k \notin Diffed \cup Webhooks \cup {"FinalizerBlock", "OwnerRefOrphan", "LabelDelete"}
  BY <1>1 DEF Is, InPlace, Valued, Diffed, Webhooks, CRDs, ByClosure, Guarded, Deleting
<1>4. Base /\ Knows /\ obj \in Objects /\ obj.val \in Values /\ case.fault \in Values
  BY Basics DEF OpInv, Objects
<1> HIDE DEF k, bad
<1>5. CASE Patch({"inject"}, "write", bad, "ok")
  <2>1. Stands({"inject"}, "write")
    BY <1>5 DEF Patch, Write
  <2>2. got \in Objects /\ got.here /\ got.val \in Values
    BY <2>1, <1>3, GotOriginal
  <2>3. /\ bad \in Objects /\ bad.mark = got.val
    <3>1. MergeValue(obj.val, case.fault) \in Values
      BY <1>4, MergeFacts
    <3>2. obj \in Objects /\ got.val \in Values
      BY <2>2, <1>4
    <3> QED BY <3>1, <3>2, FaultyFacts DEF bad
  <2>4. Fit(case.kind, legit, bad)
    BY <2>2, <2>3, <1>3, MarkValues DEF Fit, Guard, k
  <2>5. Doubles = {} => Sound(case.kind, legit, bad) /\ SideFits(bad)
    BY <2>1, <2>2, <2>3, <1>3, GotOriginal, ValueFacts DEF Sound, SideFits, k
  <2> QED BY <1>5, <1>3, <2>4, <2>5, InjectWrite DEF Patch
<1>6. CASE GetExisting({"inject"})
  BY <1>6, <1>3, GetExistingStep
<1>7. CASE GetExisting({"cleanup"})
  BY <1>7, <1>3, GetExistingStep
<1>8. CASE GetMarked({"revert"})
  BY <1>8, <1>3, GetMarkedStep
<1>9. CASE RestoreField({"cleanup"}, closure.was.val)
  <2>1. call.op = "cleanup" => closure.was.val \in Values
                               /\ (gaps = {} => GenuineIn(legit, closure.was.val))
    BY <1>3, Captured
  <2> QED BY <1>9, <2>1, <1>3, RestoreFieldStep DEF Undo
<1>10. CASE RestoreField({"revert"}, got.mark)
  <2>1. ASSUME call.op = "revert", call.at \notin Ends
        PROVE  got.mark \in Values /\ (gaps = {} => GenuineIn(legit, got.mark))
    <3>1. (got.here /\ got.mark \notin {NoMark, Corrupt}) \/ call.at = "create"
      BY <2>1, <1>3, <1>4 DEF Knows, KnowsInPlace, Ends, Undo, got
    <3>2. call.at # "create"
      BY <1>10 DEF RestoreField, Patch, Write, Look, Stands
    <3>3. got.mark \in Values
      BY <3>1, <3>2, <1>3, <1>4, MarkValues DEF Base, Fits, Fit, got, k
    <3>4. gaps = {} => Sound(case.kind, legit, got)
      BY DEF OpInv, SureBase, got
    <3> QED BY <3>1, <3>2, <3>3, <3>4, <1>3 DEF Sound, k
  <2> QED BY <1>10, <2>1, <1>3, RestoreFieldStep DEF Undo
<1> QED BY <1>2, <1>5, <1>6, <1>7, <1>8, <1>9, <1>10

-----------------------------------------------------------------------------
(* The types that delete the target after a copy went to a backup *)

LEMMA DeletingFacts ==
  ASSUME Is(Deleting)
  PROVE  /\ ~Is(InPlace) /\ ~Is(Creating) /\ ~Is(Guarded) /\ ~Is({"PDBBlock", "QuotaExhaustion"})
         /\ ~Is({"WebhookLatency"}) /\ ~Is({"SecretDrift"}) /\ Doubles = {}
         /\ case.kind \notin Webhooks \cup {"FinalizerBlock", "OwnerRefOrphan", "LabelDelete"}
         /\ case.kind \notin InPlace \cup Valued \cup Diffed
  BY DEF Is, InPlace, Deleting, Creating, Guarded, Doubles, Webhooks, Valued, Diffed

\* Where neither the target nor the backup has changed.
LEMMA CallOnly ==
  ASSUME OpInv, Is(Deleting), Base', gaps' = gaps, gaps' = {} => SureBase',
         UNCHANGED <<case, obj, side, parts, closure, taken, legit>>,
         call'.op = call.op, call.op # "none", call'.at # "idle",
         call'.at \in {"probe", "save", "write"} /\ ~call'.stale => obj = call'.got,
         KnowsDeleting',
         gaps = {} => ReliesDeleting'
  PROVE  OpInv'
<1>1. Is(Deleting)' /\ ~Is(InPlace)' /\ ~Is({"PDBBlock", "QuotaExhaustion"})'
      /\ ~Is({"WebhookLatency"})'
  BY DeletingFacts DEF Is
<1>2. Knows'
  BY <1>1, DeletingFacts DEF OpInv, Knows
<1>3. gaps' = {} => Relies'
  BY <1>1 DEF Relies
<1> QED BY <1>2, <1>3 DEF OpInv

\* What a revert that returns without an error owes.
LEMMA BackDeleting ==
  ASSUME OpInv, Is(Deleting), UNCHANGED <<case, parts>>,
         call.op \in Undo /\ call'.at = "ok" /\ gaps' = {} => ~taken' /\ ~side'.here
  PROVE  Back
<1>1. ~Is(InPlace)' /\ ~Is(Creating)' /\ parts' = {}
  BY DeletingFacts DEF OpInv, Knows, Is
<1> QED BY <1>1 DEF Back, Restored

LEMMA SaveBackupStep ==
  ASSUME OpInv, Is(Deleting), SaveBackup
  PROVE  OpInv' /\ Back
<1> USE DEF Places
<1> DEFINE look == IF obj.here THEN "probe" ELSE "error"
           probed == IF side.here /\ ~side.managed THEN "error" ELSE "save"
<1>1. Base /\ Knows /\ call \in Calls /\ side.val \in Values /\ got.val \in Values
  BY Basics DEF OpInv, Objects, got
<1>2. look \in {"probe", "error"} /\ (look = "probe" => obj.here)
  OBVIOUS
<1>3. probed \in {"save", "error"} /\ (probed = "save" => ~Foreign)
  BY DEF Foreign
<1> HIDE DEF look, probed
<1>4. \/ Get({"inject"}, look)
      \/ ReadSide({"inject"}, "probe", probed)
      \/ WriteSide({"inject"}, "save", Backup(got.val), "delete", "error")
  BY DEF SaveBackup, look, probed
<1>5. call.op = "inject"
  BY <1>4 DEF Get, ReadSide, WriteSide, Stands
<1>6. Back
  BY <1>5 DEF Back, Undo
<1>7. CASE Get({"inject"}, look)
  <2>1. /\ Stands({"inject"}, "get") /\ call' \in Calls /\ Kept /\ call'.copy = call.copy
        /\ \/ call'.at = look /\ call'.got = obj /\ call'.stale = FALSE
           \/ call'.at = "error" /\ Held
        /\ UNCHANGED <<case, obj, side, parts, closure, legit, taken, gaps, edits>>
    BY <1>1, <1>2, <1>7, Basics, GetStep
  <2>2. Base' /\ gaps' = gaps /\ (gaps' = {} => SureBase')
    BY <1>2, <1>7, GetKeeps
  <2>3. KnowsDeleting'
    BY <2>1, <1>2, <1>5 DEF KnowsDeleting, Kept, Held, Undo
  <2>4. ASSUME gaps = {} PROVE ReliesDeleting'
    <3>1. obj.here => GenuineIn(legit, obj.val) \/ Foreign
      BY <2>4 DEF OpInv, SureBase, SideSound, SideFits
    <3> QED BY <2>1, <3>1, <1>2, <1>5 DEF ReliesDeleting, Kept, Held, Undo, Foreign
  <2>5. OpInv'
    BY <2>1, <2>2, <2>3, <2>4, <1>2, <1>5, CallOnly DEF Kept
  <2> QED BY <2>5, <1>6
<1>8. CASE ReadSide({"inject"}, "probe", probed)
  <2>1. /\ Stands({"inject"}, "probe") /\ call' \in Calls /\ Kept
        /\ call'.got = call.got /\ call'.stale = call.stale
        /\ \/ call'.at = probed /\ call'.copy = side.val
           \/ call'.at = "error" /\ call'.copy = call.copy
        /\ UNCHANGED <<case, obj, side, parts, closure, legit, taken, gaps, edits>>
    BY <1>1, <1>3, <1>8, ReadSideStep
  <2>2. Base' /\ gaps' = gaps /\ (gaps' = {} => SureBase')
    BY <1>3, <1>8, ReadSideKeeps
  <2>3. KnowsDeleting'
    BY <2>1, <1>1, <1>3, <1>5 DEF Knows, KnowsDeleting, Kept, Stands, Undo, Foreign
  <2>4. ASSUME gaps = {} PROVE ReliesDeleting'
    <3>1. GenuineIn(legit, call.got.val) \/ Foreign
      BY <2>1, <2>4, <1>5 DEF OpInv, Relies, ReliesDeleting, Stands
    <3> QED BY <2>1, <3>1, <1>3, <1>5 DEF ReliesDeleting, Kept, Undo
  <2>5. call'.at \in {"probe", "save", "write"} /\ ~call'.stale => obj = call'.got
    BY <2>1, <1>1, <1>3 DEF Knows, Stands
  <2>6. OpInv'
    BY <2>1, <2>2, <2>3, <2>4, <2>5, <1>3, <1>5, CallOnly DEF Kept
  <2> QED BY <2>6, <1>6
<1>9. CASE WriteSide({"inject"}, "save", Backup(got.val), "delete", "error")
  <2>1. /\ Stands({"inject"}, "save") /\ call' \in Calls /\ Held
        /\ \/ side' = Backup(got.val) /\ call'.at = "delete"
           \/ side' \in {side, Backup(got.val)} /\ call'.at = "error"
        /\ gaps' = IF side' = side THEN gaps ELSE gaps \cup Doubles
        /\ UNCHANGED <<case, obj, parts, closure, legit, taken, edits>>
    BY <1>1, <1>9, WriteSideStep
  <2>2. gaps' = gaps
    BY <2>1, DeletingFacts
  <2>3. Base'
    BY <1>1, <2>1, <2>2, SideKeeps
  <2>4. Backup(got.val).here /\ Backup(got.val).managed /\ Backup(got.val).val = got.val
    BY DEF Backup
  <2>5. Is(Deleting)' /\ ~Is(InPlace)' /\ ~Is({"PDBBlock", "QuotaExhaustion"})'
        /\ ~Is({"WebhookLatency"})'
    BY <2>1, DeletingFacts DEF Is
  <2>6. Knows'
    BY <2>1, <2>4, <2>5, <1>1, <1>5, DeletingFacts DEF Knows, KnowsDeleting, Held, Kept, Undo, Foreign
  <2>7. ASSUME gaps' = {} PROVE SureBase' /\ Relies'
    <3>1. SureBase /\ GenuineIn(legit, got.val) /\ ~Foreign
      BY <2>1, <2>2, <2>7, <1>1, <1>5 DEF OpInv, Relies, ReliesDeleting, Knows, KnowsDeleting, Stands, got
    <3>2. SideSound'
      BY <3>1, <2>1, <2>4, DeletingFacts DEF SureBase, SideSound, SideFits, OwnBackup, Foreign, Is
    <3>3. SureBase'
      BY <3>1, <3>2, <2>1 DEF SureBase, ClosureSound, Held, Is
    <3>4. Relies'
      BY <2>1, <2>4, <2>5, <1>5 DEF Relies, ReliesDeleting, Held, Kept, Undo, OwnBackup
    <3> QED BY <3>3, <3>4
  <2> QED BY <2>3, <2>6, <2>7, <1>6 DEF OpInv
<1> QED BY <1>4, <1>7, <1>8, <1>9

LEMMA DeleteSavedStep ==
  ASSUME OpInv, Is(Deleting), DeleteSaved
  PROVE  OpInv' /\ Back
<1> USE DEF Places
<1>1. Base /\ Knows /\ call \in Calls
  BY Basics DEF OpInv
<1>2. call.op = "inject"
  BY DEF DeleteSaved, DeleteTarget, Stands
<1>3. Back
  BY <1>2 DEF Back, Undo
<1>4. CASE DeleteTarget({"inject"}, "delete", "ok", "undo", "undo")
  <2>1. /\ Stands({"inject"}, "delete") /\ call' \in Calls /\ Held
        /\ \/ obj' = Deleted(obj) /\ call'.at = IF obj.here THEN "ok" ELSE "undo"
           \/ obj' \in {obj, Deleted(obj)} /\ call'.at = "undo"
        /\ taken' = (taken \/ (Is(Deleting) /\ obj' # obj))
        /\ UNCHANGED <<case, side, parts, closure, legit, gaps, edits>>
    BY <1>1, <1>4, DeleteStep
  <2>2. gaps = {} => OwnBackup
    BY <2>1, <1>2 DEF OpInv, Relies, ReliesDeleting, Stands
  <2>3. Base' /\ (gaps' = {} => SureBase')
    BY <2>2, <1>4, DeleteKeeps
  <2>4. Is(Deleting)' /\ ~Is(InPlace)' /\ ~Is({"PDBBlock", "QuotaExhaustion"})'
        /\ ~Is({"WebhookLatency"})'
    BY <2>1, DeletingFacts DEF Is
  <2>5. call'.at \in {"ok", "undo"} /\ call'.op = "inject"
    BY <2>1, <1>2 DEF Held, Kept
  <2>6. Knows'
    BY <2>1, <2>4, <2>5, <1>1, <1>2, DeletingFacts DEF Knows, KnowsDeleting, Held, Kept, Undo, Foreign, Stands
  <2>7. Relies'
    BY <2>4, <2>5 DEF Relies, ReliesDeleting, Undo
  <2> QED BY <2>3, <2>6, <2>7, <1>3 DEF OpInv
<1>5. CASE /\ Stands({"inject"}, "undo") /\ Goto("error")
           /\ side' \in {side, NoBackup}
           /\ gaps' = IF taken /\ ~side'.here THEN gaps \cup {"lostDelete"} ELSE gaps
           /\ UNCHANGED <<case, obj, parts, closure, legit, taken, edits>>
  <2>1. call' \in Calls /\ Held /\ call'.at = "error"
    BY <1>1, <1>5 DEF Goto, Calls, Held, Kept
  <2>2. Base'
    BY <2>1, <1>1, <1>5, SideKeeps
  <2>3. Is(Deleting)' /\ ~Is(InPlace)' /\ ~Is({"PDBBlock", "QuotaExhaustion"})'
        /\ ~Is({"WebhookLatency"})'
    BY <1>5, DeletingFacts DEF Is
  <2>4. Knows'
    BY <2>1, <2>3, <1>1, <1>2, <1>5, DeletingFacts DEF Knows, KnowsDeleting, Held, Kept, Undo
  <2>5. ~NoBackup.here
    BY DEF NoBackup
  <2>6. ASSUME gaps' = {} PROVE SureBase'
    <3>1. SureBase /\ ~Foreign /\ (taken => side' = side)
      BY <2>5, <2>6, <1>1, <1>2, <1>5 DEF OpInv, Knows, KnowsDeleting, Stands
    <3>2. SideSound'
      BY <3>1, <2>5, <1>5, DeletingFacts DEF SureBase, SideSound, SideFits, OwnBackup, Foreign, Is
    <3> QED BY <3>1, <3>2, <2>1, <1>5 DEF SureBase, ClosureSound, Held, Is
  <2>7. Relies'
    BY <2>1, <2>3 DEF Relies, ReliesDeleting
  <2> QED BY <2>2, <2>4, <2>6, <2>7, <1>3 DEF OpInv
<1> QED BY <1>4, <1>5 DEF DeleteSaved

\* The start of a restore: without a backup there is nothing to do.
LEMMA GetBackupStep ==
  ASSUME OpInv, Is(Deleting), NEW STATE next, next \in {"look", "create", "error"}, GetBackup(next),
         next = "create" /\ Is({"SecretDeletion"}) => side.val # Absent,
         Is({"NamespaceDeletion"}) => next # "create"
  PROVE  OpInv' /\ Back
<1> USE DEF Places
<1> DEFINE there == IF side.here THEN next ELSE "ok"
<1>1. Base /\ Knows /\ call \in Calls /\ side.val \in Values
  BY Basics DEF OpInv
<1>2. there \in {"look", "create", "error", "ok"} /\ (there = "ok" <=> ~side.here)
      /\ (there # "ok" => there = next)
  OBVIOUS
<1> HIDE DEF there
<1>3. ReadSide(Undo, "get", there)
  BY DEF GetBackup, there
<1>4. /\ Stands(Undo, "get") /\ call' \in Calls /\ Kept
      /\ call'.got = call.got /\ call'.stale = call.stale
      /\ \/ call'.at = there /\ call'.copy = side.val
         \/ call'.at = "error" /\ call'.copy = call.copy
      /\ UNCHANGED <<case, obj, side, parts, closure, legit, taken, gaps, edits>>
  BY <1>1, <1>2, <1>3, ReadSideStep
<1>5. Base' /\ gaps' = gaps /\ (gaps' = {} => SureBase')
  BY <1>2, <1>3, ReadSideKeeps
<1>6. call.op \in Undo /\ call'.op = call.op /\ call.op # "inject" /\ call.op # "none"
  BY <1>4 DEF Stands, Kept, Undo
<1>7. Foreign => side.val = Absent
  BY <1>1 DEF Base, SideKnown
<1>8. KnowsDeleting'
  BY <1>2, <1>4, <1>6, <1>7 DEF KnowsDeleting, Foreign, Is
<1>9. ASSUME gaps = {} PROVE ReliesDeleting'
  <2>1. side.here => GenuineIn(legit, side.val) \/ Foreign
    BY <1>9 DEF OpInv, SureBase, SideSound, OwnBackup, Foreign
  <2> QED BY <2>1, <1>2, <1>4, <1>6 DEF ReliesDeleting, Foreign
<1>10. OpInv'
  BY <1>2, <1>4, <1>5, <1>6, <1>8, <1>9, CallOnly
<1>11. ASSUME call'.at = "ok", gaps' = {} PROVE ~taken' /\ ~side'.here
  <2>1. ~side.here
    BY <1>2, <1>4, <1>11
  <2>2. taken => side.here
    BY <1>5, <1>11 DEF OpInv, SureBase, SideSound, OwnBackup
  <2> QED BY <2>1, <2>2, <1>4
<1>12. Back
  BY <1>4, <1>11, BackDeleting
<1> QED BY <1>10, <1>12

\* A Get between the backup and the decision what to do with it.
LEMMA LookStepDeleting ==
  ASSUME OpInv, Is(Deleting), ~Is({"SecretDeletion"}),
         NEW STATE next, next \in {"drop", "create", "error"},
         Stands(Undo, "look"),
         \/ call' = [call EXCEPT !.at = next] /\ (Is({"NamespaceDeletion"}) =>
               /\ next = "create" => ~obj.here
               /\ next = "drop" => obj.here /\ ~obj.term)
         \/ call' = [call EXCEPT !.at = "error"]
         \/ call' = [call EXCEPT !.at = "create", !.failed = TRUE],
         UNCHANGED <<case, obj, side, parts, closure, legit, taken, gaps, edits>>
  PROVE  OpInv' /\ Back
<1>1. Base /\ Knows /\ call \in Calls
  BY Basics DEF OpInv
<1>2. /\ call' \in Calls /\ call'.op = call.op /\ call'.got = call.got /\ call'.copy = call.copy
      /\ \/ /\ call'.at = next
            /\ Is({"NamespaceDeletion"}) => /\ next = "create" => ~obj.here
                                            /\ next = "drop" => obj.here /\ ~obj.term
         \/ call'.at = "error"
         \/ call'.at = "create" /\ call'.failed = TRUE
  BY <1>1 DEF Calls
<1>3. call.op \in Undo /\ call.op # "inject" /\ call.op # "none" /\ call.at = "look"
  BY DEF Stands, Undo
<1>4. Base' /\ gaps' = gaps /\ (gaps' = {} => SureBase')
  BY <1>1, <1>2, CallKeeps DEF OpInv
<1>5. taken => ~obj.here \/ obj.term
  BY <1>1 DEF Base, SideKnown
<1>6. KnowsDeleting'
  BY <1>2, <1>3, <1>5 DEF KnowsDeleting, Is
<1>7. ASSUME gaps = {} PROVE ReliesDeleting'
  <2>1. GenuineIn(legit, call.copy) \/ Foreign
    BY <1>3, <1>7 DEF OpInv, Relies, ReliesDeleting
  <2> QED BY <2>1, <1>2, <1>3 DEF ReliesDeleting, Foreign
<1>8. OpInv'
  BY <1>2, <1>3, <1>4, <1>6, <1>7, CallOnly
<1>9. Back
  BY <1>2 DEF Back
<1> QED BY <1>8, <1>9

LEMMA FromBackupFacts ==
  ASSUME call.copy \in Values
  PROVE  /\ FromBackup \in Objects /\ FromBackup.here /\ FromBackup.val = call.copy
         /\ FromBackup.mark = NoMark /\ ~FromBackup.term
  BY GoneFacts DEF FromBackup, Objects

LEMMA CreateStepDeleting ==
  ASSUME OpInv, Is(Deleting), Create(Undo, "create", FromBackup, "drop", "drop")
  PROVE  OpInv' /\ Back
<1> USE DEF Places
<1>1. Base /\ Knows /\ call \in Calls /\ call.copy \in Values
  BY Basics DEF OpInv, Calls
<1>2. Write(Undo, "create", ~obj.here, FromBackup, "drop", "drop")
  BY DEF Create
<1> DEFINE free == ~obj.here
<1>a. free \in BOOLEAN /\ (~free => obj.here)
  OBVIOUS
<1> HIDE DEF free
<1>b. Write(Undo, "create", free, FromBackup, "drop", "drop")
  BY <1>2 DEF free
<1>c. /\ Stands(Undo, "create") /\ call' \in Calls /\ Held
      /\ \/ /\ free /\ obj' = FromBackup /\ call'.at \in {"drop", "error"}
            /\ gaps' = gaps \cup Doubles \cup Nulls(FromBackup)
         \/ ~free /\ call'.at = "drop" /\ obj' = obj /\ gaps' = gaps
         \/ call'.at = "error" /\ obj' = obj /\ gaps' = gaps
      /\ taken' = (taken /\ (~obj'.here \/ obj'.term))
      /\ UNCHANGED <<case, side, parts, closure, legit, edits>>
  BY <1>1, <1>b, WriteStep
<1>3. /\ Stands(Undo, "create") /\ call' \in Calls /\ Held
      /\ \/ /\ ~obj.here /\ obj' = FromBackup /\ call'.at \in {"drop", "error"}
            /\ gaps' = gaps \cup Doubles \cup Nulls(FromBackup)
         \/ obj.here /\ call'.at = "drop" /\ obj' = obj /\ gaps' = gaps
         \/ call'.at = "error" /\ obj' = obj /\ gaps' = gaps
      /\ taken' = (taken /\ (~obj'.here \/ obj'.term))
      /\ UNCHANGED <<case, side, parts, closure, legit, edits>>
  BY <1>a, <1>c DEF free
<1>4. Doubles = {} /\ Nulls(FromBackup) = {}
  BY DeletingFacts DEF Nulls
<1>5. call.op \in Undo /\ call'.op = call.op /\ call.op # "inject" /\ call.op # "none"
      /\ call'.failed = call.failed /\ call.at = "create"
  BY <1>3 DEF Stands, Held, Kept, Undo
<1>6. Fit(case.kind, legit, FromBackup) /\ Sound(case.kind, legit, FromBackup)
  BY <1>1, FromBackupFacts, DeletingFacts DEF Fit, Guard, Sound, Marks
<1>7. gaps = {} => SideFits(FromBackup)
  <2>1. gaps = {} => GenuineIn(legit, call.copy) \/ Foreign
    BY <1>5 DEF OpInv, Relies, ReliesDeleting
  <2> QED BY <2>1, <1>1, FromBackupFacts, DeletingFacts DEF SideFits
<1>8. Base' /\ (gaps' = {} => SureBase')
  BY <1>2, <1>4, <1>6, <1>7, WriteKeeps
<1>9. Is(Deleting)' /\ ~Is(InPlace)' /\ ~Is({"PDBBlock", "QuotaExhaustion"})'
      /\ ~Is({"WebhookLatency"})'
  BY <1>3, DeletingFacts DEF Is
<1>10. KnowsDeleting'
  <2>1. Is({"SecretDeletion"}) => ~Foreign
    BY <1>1, <1>5 DEF Knows, KnowsDeleting
  <2>2. Is({"NamespaceDeletion"}) /\ ~call.failed /\ taken => ~obj.here
    BY <1>1, <1>5 DEF Knows, KnowsDeleting
  <2>3. Is({"NamespaceDeletion"}) /\ ~call.failed /\ call'.at = "drop" => ~taken'
    BY <2>2, <1>1, <1>3, FromBackupFacts
  <2> QED BY <2>1, <2>3, <1>3, <1>5 DEF KnowsDeleting, Foreign, Is
<1>11. Knows'
  BY <1>1, <1>3, <1>5, <1>9, <1>10, DeletingFacts DEF Knows
<1>12. Relies'
  BY <1>3, <1>5, <1>9 DEF Relies, ReliesDeleting
<1>13. Back
  BY <1>3 DEF Back
<1> QED BY <1>8, <1>11, <1>12, <1>13 DEF OpInv

LEMMA DropBackupStep ==
  ASSUME OpInv, Is(Deleting), NEW missing, missing \in {"ok", "error"}, DropBackup(missing)
  PROVE  OpInv' /\ Back
<1>1. Base /\ Knows /\ call \in Calls
  BY Basics DEF OpInv
<1> DEFINE more == IF side' = side THEN {}
                   ELSE IF ~side.managed THEN {"foreignBackup"}
                   ELSE IF ~taken THEN {}
                   ELSE {IF call.failed THEN "unseen" ELSE "terminating"}
<1>2. /\ call.op \in Undo /\ call.op # "inject" /\ call.op # "none" /\ call.at = "drop"
      /\ UNCHANGED <<case, obj, parts, closure, legit, taken, edits>>
      /\ gaps' = gaps \cup more
  BY DEF DropBackup, Stands, Undo
<1>3. /\ call' \in Calls /\ Held
      /\ \/ side' = NoBackup /\ call'.at \in {"ok", "error"}
         \/ side' \in {side, NoBackup} /\ call'.at = "error"
  BY <1>1 DEF DropBackup, Goto, Calls, Held, Kept
<1>4. /\ more \subseteq {"foreignBackup", "unseen", "terminating"}
      /\ more = {} => side' = side \/ (side.managed /\ ~taken)
      /\ "terminating" \in more => taken /\ ~call.failed
  OBVIOUS
<1> HIDE DEF more
<1>5. Is({"NamespaceDeletion"}) => "terminating" \notin more
  BY <1>1, <1>2, <1>4 DEF Knows, KnowsDeleting
<1>6. Base'
  BY <1>1, <1>2, <1>3, <1>4, <1>5, SideKeeps
<1>7. ~NoBackup.here
  BY DEF NoBackup
<1>8. Is(Deleting)' /\ ~Is(InPlace)' /\ ~Is({"PDBBlock", "QuotaExhaustion"})'
      /\ ~Is({"WebhookLatency"})'
  BY <1>2, DeletingFacts DEF Is
<1>9. call'.op = call.op
  BY <1>3 DEF Held, Kept
<1>10. Knows'
  BY <1>1, <1>2, <1>3, <1>8, <1>9, DeletingFacts DEF Knows, KnowsDeleting
<1>11. ASSUME gaps' = {} PROVE SureBase'
  <2>1. SureBase /\ (side' = side \/ (side.managed /\ ~taken))
    BY <1>2, <1>4, <1>11 DEF OpInv
  <2>2. SideSound'
    BY <2>1, <1>2, <1>3, <1>7, DeletingFacts DEF SureBase, SideSound, SideFits, OwnBackup, Foreign, Is
  <2> QED BY <2>1, <2>2, <1>2, <1>3 DEF SureBase, ClosureSound, Held, Is
<1>12. Relies'
  BY <1>2, <1>3, <1>8, <1>9 DEF Relies, ReliesDeleting
<1>13. ASSUME call'.at = "ok", gaps' = {} PROVE ~taken' /\ ~side'.here
  <2>1. side' = NoBackup /\ (side' = side \/ ~taken)
    BY <1>2, <1>3, <1>4, <1>13
  <2>2. taken => side.here
    BY <1>2, <1>13 DEF OpInv, SureBase, SideSound, OwnBackup
  <2> QED BY <2>1, <2>2, <1>2, <1>7
<1>14. Back
  BY <1>2, <1>13, BackDeleting
<1> QED BY <1>6, <1>10, <1>11, <1>12, <1>14 DEF OpInv

LEMMA DeletingStep ==
  ASSUME OpInv, \/ SecretDeletionInject \/ LeaderElectionInject \/ ResourceDeletionInject
                \/ NamespaceDeletionInject
                \/ RestoreSecret \/ RestoreLease \/ RestoreResource \/ RestoreNamespace
  PROVE  OpInv' /\ Back
<1>1. Is(Deleting)
  BY DEF SecretDeletionInject, LeaderElectionInject, ResourceDeletionInject,
         NamespaceDeletionInject, RestoreSecret, RestoreLease, RestoreResource,
         RestoreNamespace, Is, Deleting
<1>2. CASE \/ SecretDeletionInject \/ LeaderElectionInject \/ ResourceDeletionInject
           \/ NamespaceDeletionInject
  BY <1>1, <1>2, SaveBackupStep, DeleteSavedStep
  DEF SecretDeletionInject, LeaderElectionInject, ResourceDeletionInject, NamespaceDeletionInject
<1>3. CASE Create(Undo, "create", FromBackup, "drop", "drop")
  BY <1>1, <1>3, CreateStepDeleting
<1>4. CASE DropBackup("ok") \/ DropBackup("error")
  BY <1>1, <1>4, DropBackupStep
<1>5. CASE RestoreSecret
  <2> DEFINE next == IF side.val # Absent THEN "create" ELSE "error"
  <2>1. next \in {"look", "create", "error"} /\ (next = "create" => side.val # Absent)
    OBVIOUS
  <2>2. ~Is({"NamespaceDeletion"})
    BY <1>5 DEF RestoreSecret, Is
  <2>3. GetBackup(next) \/ Create(Undo, "create", FromBackup, "drop", "drop") \/ DropBackup("ok")
    BY <1>5 DEF RestoreSecret
  <2> HIDE DEF next
  <2> QED BY <2>1, <2>2, <2>3, <1>1, <1>3, <1>4, GetBackupStep
<1>6. CASE RestoreLease \/ RestoreResource
  <2> DEFINE next == CASE obj.here -> "drop"
                       [] ~obj.here /\ call.copy # Absent -> "create"
                       [] OTHER -> "error"
  <2>1. next \in {"drop", "create", "error"}
    OBVIOUS
  <2>2. ~Is({"NamespaceDeletion"}) /\ ~Is({"SecretDeletion"})
    BY <1>6 DEF RestoreLease, RestoreResource, Is
  <2>3. \/ GetBackup("look") \/ Look(Undo, "look", next)
        \/ Create(Undo, "create", FromBackup, "drop", "drop") \/ DropBackup("ok")
    BY <1>6 DEF RestoreLease, RestoreResource
  <2> HIDE DEF next
  <2>4. CASE GetBackup("look")
    BY <2>2, <2>4, <1>1, GetBackupStep
  <2>5. CASE Look(Undo, "look", next)
    BY <2>1, <2>2, <2>5, <1>1, LookStepDeleting DEF Look, Goto, history
  <2> QED BY <2>3, <2>4, <2>5, <1>3, <1>4
<1>7. CASE RestoreNamespace
  <2> DEFINE next == CASE ~obj.here -> "create" [] obj.term -> "error" [] OTHER -> "drop"
  <2>1. /\ next \in {"drop", "create", "error"}
        /\ next = "create" => ~obj.here
        /\ next = "drop" => obj.here /\ ~obj.term
    <3>1. obj.term \in BOOLEAN
      BY Basics DEF OpInv, Objects
    <3>2. CASE ~obj.here /\ obj.term
      <4>1. next \in {"create", "error"}
        BY <3>2
      <4> QED BY <4>1, <3>2
    <3> QED BY <3>1, <3>2
  <2>2. ~Is({"SecretDeletion"})
    BY <1>7 DEF RestoreNamespace, Is
  <2>3. \/ GetBackup("look")
        \/ /\ Stands(Undo, "look")
           /\ Goto(next) \/ call' = [call EXCEPT !.at = "create", !.failed = TRUE]
           /\ UNCHANGED <<case, obj, side, parts, closure, history>>
        \/ Create(Undo, "create", FromBackup, "drop", "drop") \/ DropBackup("error")
    BY <1>7 DEF RestoreNamespace
  <2> HIDE DEF next
  <2>4. CASE GetBackup("look")
    BY <2>2, <2>4, <1>1, GetBackupStep
  <2>5. CASE /\ Stands(Undo, "look")
             /\ Goto(next) \/ call' = [call EXCEPT !.at = "create", !.failed = TRUE]
             /\ UNCHANGED <<case, obj, side, parts, closure, history>>
    BY <2>1, <2>2, <2>5, <1>1, LookStepDeleting DEF Goto, history
  <2> QED BY <2>3, <2>4, <2>5, <1>3, <1>4
<1> QED BY <1>2, <1>5, <1>6, <1>7

-----------------------------------------------------------------------------
(* The types that create objects *)

LEMMA CreatingFacts ==
  ASSUME Is(Creating)
  PROVE  /\ ~Is(InPlace) /\ ~Is(Deleting) /\ ~Is(Guarded) /\ ~Is({"WebhookLatency"})
         /\ ~Is({"SecretDrift"}) /\ Doubles = {}
         /\ case.kind \notin Webhooks \cup {"FinalizerBlock", "OwnerRefOrphan", "LabelDelete"}
         /\ case.kind \notin InPlace \cup Valued \cup Diffed
  BY DEF Is, InPlace, Deleting, Creating, Guarded, Doubles, Webhooks, Valued, Diffed

\* Between its steps such a type knows next to nothing.
LEMMA CreatingKeeps ==
  ASSUME OpInv, Is(Creating), Base', gaps' = {} => SureBase',
         UNCHANGED <<case, parts, closure>>, call'.op = call.op, call.op # "none",
         \/ call'.at \in {"create", "ok", "error"}
         \/ /\ call'.at = "write" /\ call'.got = obj'
            /\ Is({"PDBBlock", "QuotaExhaustion"}) => Ours(call'.got),
         call.op \in Undo /\ call'.at = "ok" => ~(obj'.here /\ Ours(obj'))
  PROVE  OpInv' /\ Back
<1>1. ~Is(InPlace)' /\ ~Is(Deleting)' /\ ~Is({"WebhookLatency"})' /\ parts' = {}
      /\ (Is({"PDBBlock", "QuotaExhaustion"})' <=> Is({"PDBBlock", "QuotaExhaustion"}))
  BY CreatingFacts DEF OpInv, Knows, Is
<1>2. Knows'
  BY <1>1 DEF OpInv, Knows, Ours
<1>3. Relies'
  BY <1>1 DEF Relies
<1>4. Back
  BY <1>1 DEF Back, Restored, Ours
<1> QED BY <1>2, <1>3, <1>4 DEF OpInv

LEMMA CreatingGet ==
  ASSUME OpInv, Is(Creating), NEW ops, ops \subseteq Undo \cup {"inject"},
         NEW STATE next, next \in {"write", "create", "ok", "error"}, Get(ops, next),
         next = "write" /\ Is({"PDBBlock", "QuotaExhaustion"}) => Ours(obj),
         next = "ok" => ~obj.here
  PROVE  OpInv' /\ Back
<1> USE DEF Places
<1>1. call \in Calls /\ obj \in Objects
  BY Basics DEF OpInv
<1>2. /\ Stands(ops, "get") /\ Kept
      /\ \/ call'.at = next /\ call'.got = obj
         \/ call'.at = "error"
      /\ UNCHANGED <<case, obj, parts, closure>>
  BY <1>1, GetStep
<1>3. Base' /\ (gaps' = {} => SureBase')
  BY GetKeeps
<1>4. call'.op = call.op /\ call.op # "none"
  BY <1>2 DEF Stands, Kept, Undo
<1> QED BY <1>2, <1>3, <1>4, CreatingKeeps

LEMMA ArtefactFacts ==
  ASSUME Base, Is(Creating)
  PROVE  /\ Fit(case.kind, legit, Artefact) /\ Sound(case.kind, legit, Artefact)
         /\ SideFits(Artefact) /\ Nulls(Artefact) = {}
<1>1. Artefact \in Objects /\ Artefact.mark = NoMark
  BY Basics, GoneFacts DEF Artefact, Objects
<1> QED BY <1>1, CreatingFacts DEF Fit, Guard, Sound, SideFits, Nulls, Marks

LEMMA CreatingWrite ==
  ASSUME OpInv, Is(Creating), NEW at, NEW STATE accepted, NEW refused, refused \in {"ok", "error"},
         Write({"inject"}, at, accepted, Artefact, "ok", refused)
  PROVE  OpInv' /\ Back
<1> USE DEF Places
<1>1. Base /\ call \in Calls
  BY Basics DEF OpInv
<1>2. /\ Stands({"inject"}, at) /\ Held /\ call'.at \in {"ok", "error"}
      /\ UNCHANGED <<case, parts, closure>>
  BY <1>1, WriteStep
<1>3. Base' /\ (gaps' = {} => SureBase')
  BY <1>1, ArtefactFacts, CreatingFacts, WriteKeeps
<1>4. call'.op = call.op /\ call.op # "none" /\ call.op \notin Undo
  BY <1>2 DEF Stands, Held, Kept, Undo
<1> QED BY <1>2, <1>3, <1>4, CreatingKeeps

LEMMA CreatingDelete ==
  ASSUME OpInv, Is(Creating), NEW ops, ops \subseteq Undo, NEW at,
         NEW missing, missing \in {"ok", "error"}, DeleteTarget(ops, at, "ok", missing, "error")
  PROVE  OpInv' /\ Back
<1> USE DEF Places
<1>1. Base /\ call \in Calls
  BY Basics DEF OpInv
<1>2. /\ Stands(ops, at) /\ Held
      /\ \/ obj' = Deleted(obj) /\ call'.at \in {"ok", missing}
         \/ call'.at = "error"
      /\ UNCHANGED <<case, parts, closure>>
  BY <1>1, DeleteStep
<1>3. Base' /\ (gaps' = {} => SureBase')
  BY CreatingFacts, DeleteKeeps
<1>4. call'.op = call.op /\ call.op # "none"
  BY <1>2 DEF Stands, Held, Kept, Undo
<1>5. ~Deleted(obj).here
  BY <1>1, CreatingFacts, DeletedFacts
<1> QED BY <1>2, <1>3, <1>4, <1>5, CreatingKeeps

LEMMA CreatingStep ==
  ASSUME OpInv, \/ NetworkPartitionInject \/ NetworkPartitionRevert
                \/ PDBBlockInject \/ DeletePDB
                \/ QuotaExhaustionInject \/ QuotaExhaustionCleanup \/ QuotaExhaustionRevert
  PROVE  OpInv' /\ Back
<1>1. Is(Creating)
  BY DEF NetworkPartitionInject, NetworkPartitionRevert, PDBBlockInject, DeletePDB,
         QuotaExhaustionInject, QuotaExhaustionCleanup, QuotaExhaustionRevert, Is, Creating
<1>2. ASSUME NEW at, at \in {"get", "create"}, NEW refused, refused \in {"ok", "error"},
             Create({"inject"}, at, Artefact, "ok", refused)
      PROVE  OpInv' /\ Back
  BY <1>1, <1>2, CreatingWrite DEF Create
<1>3. ASSUME NEW ops, ops \subseteq Undo, NEW at, at \in {"get", "write"},
             NEW missing, missing \in {"ok", "error"}, DeleteTarget(ops, at, "ok", missing, "error")
      PROVE  OpInv' /\ Back
  BY <1>1, <1>3, CreatingDelete
<1>4. CASE NetworkPartitionInject
  BY <1>2, <1>4 DEF NetworkPartitionInject
<1>5. CASE NetworkPartitionRevert
  <2> DEFINE look == IF obj.here THEN "write" ELSE "ok"
  <2>1. ~Is({"PDBBlock", "QuotaExhaustion"})
    BY <1>5 DEF NetworkPartitionRevert, Is
  <2>2. look \in {"write", "ok"} /\ (look = "ok" => ~obj.here)
    OBVIOUS
  <2>3. \/ Get({"revert"}, look)
        \/ DeleteTarget({"cleanup"}, "get", "ok", "ok", "error")
        \/ DeleteTarget({"revert"}, "write", "ok", "ok", "error")
    BY <1>5 DEF NetworkPartitionRevert
  <2> HIDE DEF look
  <2>4. CASE Get({"revert"}, look)
    BY <2>1, <2>2, <2>4, <1>1, CreatingGet DEF Undo
  <2> QED BY <2>3, <2>4, <1>3 DEF Undo
<1>6. CASE PDBBlockInject
  <2> DEFINE look == CASE ~obj.here -> "create" [] Ours(obj) -> "write" [] OTHER -> "error"
  <2>1. look \in {"create", "write", "error"} /\ (look = "write" => Ours(obj))
    <3>1. obj.here \in BOOLEAN
      BY Basics DEF OpInv, Objects
    <3>2. CASE ~obj.here /\ Ours(obj)
      BY <3>2
    <3> QED BY <3>1, <3>2
  <2>2. \/ Get({"inject"}, look)
        \/ Update({"inject"}, "write", Artefact, "ok")
        \/ Create({"inject"}, "create", Artefact, "ok", "error")
    BY <1>6 DEF PDBBlockInject
  <2> HIDE DEF look
  <2>3. CASE Get({"inject"}, look)
    BY <2>1, <2>3, <1>1, CreatingGet
  <2>4. CASE Update({"inject"}, "write", Artefact, "ok")
    BY <2>4, <1>1, CreatingWrite DEF Update
  <2> QED BY <2>2, <2>3, <2>4, <1>2
<1>7. CASE DeletePDB \/ QuotaExhaustionRevert
  <2> DEFINE look == CASE ~obj.here -> "ok" [] Ours(obj) -> "write" [] OTHER -> "error"
  <2>1. look \in {"ok", "write", "error"}
    OBVIOUS
  <2>2. (look = "write" => Ours(obj)) /\ (look = "ok" => ~obj.here)
    BY SMT DEF Ours
  <2>3. \/ \E ops \in {Undo, {"revert"}} : Get(ops, look)
        \/ \E ops \in {Undo, {"revert"}}, missing \in {"ok", "error"} :
               DeleteTarget(ops, "write", "ok", missing, "error")
    BY <1>7 DEF DeletePDB, QuotaExhaustionRevert
  <2> HIDE DEF look
  <2>4. ASSUME NEW ops \in {Undo, {"revert"}}, Get(ops, look)
        PROVE  OpInv' /\ Back
    BY <2>1, <2>2, <2>4, <1>1, CreatingGet DEF Undo
  <2>5. ASSUME NEW ops \in {Undo, {"revert"}}, NEW missing \in {"ok", "error"},
               DeleteTarget(ops, "write", "ok", missing, "error")
        PROVE  OpInv' /\ Back
    BY <2>5, <1>3 DEF Undo
  <2> QED BY <2>3, <2>4, <2>5
<1>8. CASE QuotaExhaustionInject
  <2> DEFINE look == IF obj.here THEN "error" ELSE "create"
  <2>1. look \in {"error", "create"}
    OBVIOUS
  <2>2. Get({"inject"}, look) \/ Create({"inject"}, "create", Artefact, "ok", "error")
    BY <1>8 DEF QuotaExhaustionInject
  <2> HIDE DEF look
  <2>3. CASE Get({"inject"}, look)
    BY <2>1, <2>3, <1>1, CreatingGet
  <2> QED BY <2>2, <2>3, <1>2
<1>9. CASE QuotaExhaustionCleanup
  BY <1>3, <1>9 DEF QuotaExhaustionCleanup, Undo
<1> QED BY <1>4, <1>5, <1>6, <1>7, <1>8, <1>9

-----------------------------------------------------------------------------
(* WebhookLatency *)

LEMMA PlaceFacts ==
  /\ Place("secret") = 1 /\ Place("deploy") = 2 /\ Place("service") = 3 /\ Place("hook") = 4
  /\ Order[1] = "secret" /\ Order[2] = "deploy" /\ Order[3] = "service" /\ Order[4] = "hook"
<1>1. Order[1] = "secret" /\ Order[2] = "deploy" /\ Order[3] = "service" /\ Order[4] = "hook"
  BY DEF Order
<1>2. ASSUME NEW i \in 1..4, NEW p, Order[i] = p PROVE Place(p) = i
  BY <1>1, <1>2 DEF Place
<1> QED BY <1>1, <1>2

LEMMA PartFacts ==
  ASSUME NEW p \in Parts
  PROVE  /\ Place(p) \in 1..4 /\ Place("hook") = 4
         /\ p # "hook" => Order[Place(p) + 1] \in Parts
         /\ p # "secret" => /\ Order[Place(p) - 1] \in Parts
                            /\ Place(Order[Place(p) - 1]) = Place(p) - 1
         /\ p = "secret" => Place(p) = 1
         /\ \A q \in Parts : Place(q) = Place(p) => q = p
<1>1. p \in {"secret", "deploy", "service", "hook"}
  BY DEF Parts
<1>2. CASE p = "secret"
  BY <1>2, PlaceFacts DEF Parts
<1>3. CASE p = "deploy"
  BY <1>3, PlaceFacts DEF Parts
<1>4. CASE p = "service"
  BY <1>4, PlaceFacts DEF Parts
<1>5. CASE p = "hook"
  BY <1>5, PlaceFacts DEF Parts
<1> QED BY <1>1, <1>2, <1>3, <1>4, <1>5

\* An injection that fails half-way leaves nothing, unless a delete fails too.
Undone == Is({"WebhookLatency"}) /\ call.op = "inject" /\ call.at \in {"create", "drop"}
            /\ call'.at = "error" /\ ~call'.failed => parts' = {}

LEMMA PartsKeeps ==
  ASSUME OpInv, Is({"WebhookLatency"}), call' \in Calls, call'.got = call.got,
         call'.op = call.op, call.op # "none", call'.at \in {"create", "drop", "ok", "error"},
         parts' \subseteq Parts, KnowsParts', call'.at = "ok" => call.op = "inject" \/ parts' = {},
         UNCHANGED <<case, obj, side, closure, legit, taken, gaps, edits>>
  PROVE  OpInv' /\ Back
<1>1. Base'
  BY DEF OpInv, Base, Fits, Types, TypeOK, SideKnown, Foreign, ClosureKnown, Excused, Is
<1>2. ASSUME gaps' = {} PROVE SureBase'
  BY <1>2 DEF OpInv, SureBase, SideSound, SideFits, Foreign, OwnBackup, ClosureSound, Is
<1>3. Is({"WebhookLatency"})' /\ ~Is(InPlace)' /\ ~Is(Deleting)' /\ ~Is(Creating)'
      /\ ~Is({"PDBBlock", "QuotaExhaustion"})'
  BY DEF Is, InPlace, Deleting, Creating
<1>4. Knows'
  BY <1>3 DEF OpInv, Knows
<1>5. Relies'
  BY <1>3 DEF Relies
<1>6. Back
  BY <1>3 DEF Back, Restored, Undo
<1> QED BY <1>1, <1>2, <1>4, <1>5, <1>6 DEF OpInv

LEMMA MovedFacts ==
  ASSUME call \in Calls, NEW at, at \in Places, NEW STATE p, p \in Parts \cup {"none"}, Moved(at, p)
  PROVE  /\ call' \in Calls /\ call'.at = at /\ call'.part = p /\ call'.op = call.op
         /\ call'.got = call.got /\ call'.failed = call.failed
  BY DEF Moved, Calls, Places

LEMMA WebhookLatencyStep ==
  ASSUME OpInv, WebhookLatencyInject \/ WebhookLatencyRevert \/ CleanupResources
  PROVE  OpInv' /\ Back /\ Undone
<1> USE DEF Places
<1>1. Is({"WebhookLatency"})
  BY DEF WebhookLatencyInject, WebhookLatencyRevert, CleanupResources
<1>2. call \in Calls /\ KnowsParts /\ parts \subseteq Parts
  BY <1>1, Basics DEF OpInv, Knows, Base, Types, TypeOK
<1>3. \A p \in Parts : Place(p) \in 1..4 /\ Place("hook") = 4
  BY PartFacts
<1>4. "hook" \in Parts /\ "secret" \in Parts
  BY DEF Parts
<1>5. CASE /\ Stands({"inject"}, "get") /\ (Goto("error") \/ Moved("create", "secret"))
           /\ UNCHANGED <<case, obj, side, parts, closure, history>>
  <2>1. /\ call' \in Calls /\ call'.got = call.got /\ call'.op = "inject"
        /\ \/ call'.at = "error"
           \/ call'.at = "create" /\ call'.part = "secret"
    BY <1>2, <1>4, <1>5, MovedFacts DEF Goto, Stands, Calls
  <2>2. KnowsParts'
    BY <2>1, <1>4 DEF KnowsParts
  <2>3. call.op = "inject" /\ call.at = "get"
    BY <1>5 DEF Stands
  <2> QED BY <2>1, <2>2, <2>3, <1>1, <1>2, <1>5, PartsKeeps DEF history, Undone
<1>6. CASE CreateParts
  <2>1. /\ call.op = "inject" /\ call.at = "create" /\ call.part \in Parts
        /\ parts' \in {parts, parts \cup {call.part}}
        /\ UNCHANGED <<case, obj, side, closure, legit, taken, gaps, edits>>
        /\ \/ call.part = "hook" /\ Moved("ok", "none")
           \/ call.part # "hook" /\ Moved("create", Order[Place(call.part) + 1])
           \/ Moved("drop", "hook")
    BY <1>2, <1>6 DEF CreateParts, Stands, KnowsParts, history
  <2>2. /\ call' \in Calls /\ call'.got = call.got /\ call'.op = "inject"
        /\ \/ call'.at = "ok"
           \/ call'.at = "create" /\ call'.part \in Parts
           \/ call'.at = "drop" /\ call'.part = "hook"
    <3>1. CASE call.part = "hook" /\ Moved("ok", "none")
      BY <3>1, <2>1, <1>2, MovedFacts
    <3>2. CASE call.part # "hook" /\ Moved("create", Order[Place(call.part) + 1])
      BY <3>2, <2>1, <1>2, MovedFacts, PartFacts
    <3>3. CASE Moved("drop", "hook")
      BY <3>3, <2>1, <1>2, <1>4, MovedFacts
    <3> QED BY <2>1, <3>1, <3>2, <3>3
  <2>3. parts' \subseteq Parts
    BY <2>1, <1>2
  <2>4. KnowsParts'
    BY <2>2, <2>3, <1>3, <1>4 DEF KnowsParts, Undo
  <2> QED BY <2>1, <2>2, <2>3, <2>4, <1>1, PartsKeeps DEF Undone
<1>7. CASE WebhookLatencyRevert
  <2>1. /\ call.op \in Undo /\ call.op # "none" /\ Moved("drop", "hook")
        /\ UNCHANGED <<case, obj, side, parts, closure, legit, taken, gaps, edits>>
    BY <1>7 DEF WebhookLatencyRevert, Stands, history, Undo
  <2>2. /\ call' \in Calls /\ call'.got = call.got /\ call'.op = call.op
        /\ call'.at = "drop" /\ call'.part = "hook"
    BY <2>1, <1>2, <1>4, MovedFacts
  <2>3. KnowsParts'
    BY <2>1, <2>2, <1>2, <1>3, <1>4 DEF KnowsParts
  <2> QED BY <2>1, <2>2, <2>3, <1>1, <1>2, PartsKeeps DEF Undone
<1>8. CASE CleanupResources
  <2>1. /\ call.op \in {"revert", "cleanup", "inject"} /\ call.op # "none"
        /\ call.at = "drop" /\ call.part \in Parts
        /\ UNCHANGED <<case, obj, side, closure, legit, taken, gaps, edits>>
        /\ ~call.failed => \A p \in parts : Place(p) <= Place(call.part)
    BY <1>2, <1>8 DEF CleanupResources, Stands, KnowsParts, history, Undo
  <2>2. PICK failed \in BOOLEAN :
          /\ Swept(failed) /\ parts' \subseteq parts
          /\ ~failed => ~call.failed /\ parts' = parts \ {call.part}
    BY <1>2, <1>8 DEF CleanupResources, Calls
  <2> DEFINE at == CASE call.part # "secret" -> "drop"
                     [] call.part = "secret" /\ (call.op = "inject" \/ failed) -> "error"
                     [] OTHER -> "ok"
             part == IF call.part = "secret" THEN "none" ELSE Order[Place(call.part) - 1]
  <2>3. /\ at \in {"drop", "ok", "error"}
        /\ at = "drop" <=> call.part # "secret"
        /\ at = "error" => call.op = "inject" \/ failed
        /\ at = "ok" => call.op # "inject" /\ ~failed
    OBVIOUS
  <2>4. /\ part \in Parts \cup {"none"}
        /\ call.part # "secret" => part \in Parts /\ Place(part) = Place(call.part) - 1
    BY <2>1, PartFacts
  <2>5. call' = [call EXCEPT !.failed = failed, !.at = at, !.part = part]
    BY <2>2 DEF Swept
  <2> HIDE DEF at, part
  <2>6. /\ call' \in Calls /\ call'.at = at /\ call'.part = part /\ call'.failed = failed
        /\ call'.op = call.op /\ call'.got = call.got
    BY <2>3, <2>4, <2>5, <1>2 DEF Calls
  <2>7. ASSUME ~failed PROVE \A p \in parts' : p \in Parts /\ Place(p) < Place(call.part)
    <3>1. ASSUME NEW p \in parts' PROVE p \in Parts /\ Place(p) < Place(call.part)
      <4>1. p \in Parts /\ p # call.part /\ Place(p) <= Place(call.part)
        BY <2>1, <2>2, <2>7, <1>2
      <4>2. Place(p) # Place(call.part) /\ Place(p) \in 1..4 /\ Place(call.part) \in 1..4
        BY <4>1, <2>1, PartFacts
      <4> QED BY <4>1, <4>2
    <3> QED BY <3>1
  <2>8. ASSUME ~failed, call.part = "secret" PROVE parts' = {}
    <3>1. \A p \in parts' : Place(p) \in 1..4 /\ Place(p) < 1
      BY <2>7, <2>8, <1>3, PlaceFacts
    <3> QED BY <3>1
  <2>9. KnowsParts'
    <3>1. CASE call.part # "secret"
      <4>1. ~failed => \A p \in parts' : Place(p) <= Place(part)
        BY <2>1, <2>4, <2>7, <3>1, <1>3
      <4> QED BY <4>1, <2>3, <2>4, <2>6, <3>1 DEF KnowsParts
    <3>2. CASE call.part = "secret"
      BY <3>2, <2>3, <2>6, <2>8 DEF KnowsParts
    <3> QED BY <3>1, <3>2
  <2>10. parts' \subseteq Parts
    BY <2>2, <1>2
  <2>11. (at = "ok" => parts' = {}) /\ (at = "error" /\ ~failed => parts' = {})
    BY <2>3, <2>8
  <2> QED BY <2>1, <2>3, <2>6, <2>9, <2>10, <2>11, <1>1, PartsKeeps DEF Undone
<1>9. \/ /\ Stands({"inject"}, "get") /\ (Goto("error") \/ Moved("create", "secret"))
         /\ UNCHANGED <<case, obj, side, parts, closure, history>>
      \/ CreateParts \/ WebhookLatencyRevert \/ CleanupResources
  BY DEF WebhookLatencyInject
<1> QED BY <1>5, <1>6, <1>7, <1>8, <1>9

-----------------------------------------------------------------------------
(* The callers *)

LEMMA OperationStep ==
  ASSUME OpInv, Operation
  PROVE  OpInv' /\ Back /\ Undone
<1>1. CASE WebhookLatencyInject \/ WebhookLatencyRevert \/ CleanupResources
  BY <1>1, WebhookLatencyStep
<1>2. CASE ~Is({"WebhookLatency"})
  <2>1. Undone
    BY <1>2 DEF Undone
  <2>2. CASE RBACRevokeInject \/ RBACRevokeRevert \/ ConfigMapInject \/ ConfigMapRevert
    BY <2>1, <2>2, CopiedStep
  <2>3. CASE SecretInject \/ SecretRevert
    BY <2>1, <2>3, SecretStep
  <2>4. CASE WebhookDisruptInject \/ WebhookDisruptRevert \/ RestorePolicies
    BY <2>1, <2>4, WebhookStep
  <2>5. CASE FinalizerBlockInject \/ FinalizerBlockCleanup \/ FinalizerBlockRevert
    BY <2>1, <2>5, FinalizerBlockStep
  <2>6. CASE ClientFaultInject \/ ClientFaultCleanup \/ ClientFaultRevert
    BY <2>1, <2>6, ClientFaultStep
  <2>7. CASE CRDMutationInject \/ CRDMutationCleanup \/ CRDMutationRevert
    BY <2>1, <2>7, CRDMutationStep
  <2>8. CASE OwnerRefOrphanInject \/ OwnerRefOrphanCleanup \/ OwnerRefOrphanRevert
    BY <2>1, <2>8, OwnerRefOrphanStep
  <2>9. CASE LabelStompingInject \/ LabelStompingCleanup \/ LabelStompingRevert
    BY <2>1, <2>9, LabelStompingStep
  <2>10. CASE \/ ScaleZeroInject \/ ScaleZeroRestore \/ CrashLoopInject \/ CrashLoopRestore
              \/ ImageCorruptInject \/ ImageCorruptRestore
    BY <2>1, <2>10, DiffedStep
  <2>11. CASE \/ SecretDeletionInject \/ LeaderElectionInject \/ ResourceDeletionInject
              \/ NamespaceDeletionInject
              \/ RestoreSecret \/ RestoreLease \/ RestoreResource \/ RestoreNamespace
    BY <2>1, <2>11, DeletingStep
  <2>12. CASE \/ NetworkPartitionInject \/ NetworkPartitionRevert \/ PDBBlockInject \/ DeletePDB
              \/ QuotaExhaustionInject \/ QuotaExhaustionCleanup \/ QuotaExhaustionRevert
    BY <2>1, <2>12, CreatingStep
  <2> QED BY <1>1, <2>2, <2>3, <2>4, <2>5, <2>6, <2>7, <2>8, <2>9, <2>10, <2>11, <2>12
          DEF Operation, Inject, Cleanup, Revert
<1>3. CASE Is({"WebhookLatency"})
  <2>1. WebhookLatencyInject \/ WebhookLatencyRevert \/ CleanupResources
    BY <1>3, SMT DEF Operation, Inject, Cleanup, Revert, Is,
       RBACRevokeInject, RBACRevokeRevert, ConfigMapInject, ConfigMapRevert, SecretInject,
       SecretRevert, WebhookDisruptInject, WebhookDisruptRevert, RestorePolicies,
       FinalizerBlockInject, FinalizerBlockCleanup, FinalizerBlockRevert, ClientFaultInject,
       ClientFaultCleanup, ClientFaultRevert, CRDMutationInject, CRDMutationCleanup,
       CRDMutationRevert, OwnerRefOrphanInject, OwnerRefOrphanCleanup, OwnerRefOrphanRevert,
       LabelStompingInject, LabelStompingCleanup, LabelStompingRevert, ScaleZeroInject,
       ScaleZeroRestore, CrashLoopInject, CrashLoopRestore, ImageCorruptInject,
       ImageCorruptRestore, SecretDeletionInject, LeaderElectionInject,
       ResourceDeletionInject, NamespaceDeletionInject, RestoreSecret, RestoreLease,
       RestoreResource, RestoreNamespace, NetworkPartitionInject, NetworkPartitionRevert,
       PDBBlockInject, DeletePDB, QuotaExhaustionInject, QuotaExhaustionCleanup,
       QuotaExhaustionRevert
  <2> QED BY <1>1, <2>1
<1> QED BY <1>2, <1>3

LEMMA IdleFacts ==
  /\ Idle \in Calls /\ Idle.op = "none" /\ Idle.at = "idle" /\ Idle.got = Gone
  /\ NoClosure \in [set : BOOLEAN, was : Objects] /\ ~NoClosure.set /\ NoClosure.was = Gone
  BY GoneFacts, ValueFacts DEF Idle, Calls, NoClosure

LEMMA GoneFits ==
  ASSUME NEW k, NEW L
  PROVE  Fit(k, L, Gone) /\ Sound(k, L, Gone) /\ SideFits(Gone)
  BY GoneFacts DEF Fit, Sound, SideFits

\* Between two operations, and before the first step of one.
LEMMA FreshCall ==
  ASSUME OpInv, call' \in Calls, call'.got = Gone,
         (call'.op = "none" /\ call'.at = "idle") \/ (call'.op # "none" /\ call'.at = "get"),
         call'.op = "cleanup" => closure'.set,
         closure' \in [set : BOOLEAN, was : Objects],
         Fit(case.kind, legit, closure'.was), ClosureKnown', gaps = {} => ClosureSound',
         UNCHANGED <<case, obj, side, parts, legit, taken, gaps, edits>>
  PROVE  OpInv'
<1>1. Fits'
  BY GoneFits DEF OpInv, Base, Fits
<1>2. Base'
  BY <1>1 DEF OpInv, Base, Types, TypeOK, SideKnown, Foreign, Excused, Is
<1>3. Knows'
  BY DEF OpInv, Knows, KnowsInPlace, KnowsDeleting, KnowsParts, Ends, Is
<1>4. ASSUME gaps' = {} PROVE SureBase' /\ Relies'
  <2>1. Sound(case.kind, legit, Gone)
    BY GoneFits
  <2>2. SureBase'
    BY <1>4, <2>1 DEF OpInv, SureBase, SideSound, SideFits, Foreign, OwnBackup, Is
  <2>3. Relies'
    BY DEF Relies, ReliesInPlace, ReliesDeleting
  <2> QED BY <2>2, <2>3
<1> QED BY <1>2, <1>3, <1>4 DEF OpInv

LEMMA StartStep ==
  ASSUME OpInv, NEW op \in {"inject"} \cup Undo, Start(op)
  PROVE  OpInv' /\ call.at # "ok" /\ call'.at = "get" /\ UNCHANGED <<obj, side>>
<1>1. /\ call' \in Calls /\ call'.got = Gone /\ call'.op = op /\ call'.at = "get"
      /\ op # "none" /\ call = Idle /\ (op = "cleanup" => closure.set)
      /\ UNCHANGED <<case, obj, side, parts, closure, legit, taken, gaps, edits>>
  BY IdleFacts DEF Start, Calls, Undo
<1>2. closure \in [set : BOOLEAN, was : Objects] /\ Fit(case.kind, legit, closure.was)
  BY DEF OpInv, Base, Types, TypeOK, Fits
<1>3. ClosureKnown' /\ (gaps = {} => ClosureSound')
  BY <1>1 DEF OpInv, Base, SureBase, ClosureKnown, ClosureSound, Is
<1> QED BY <1>1, <1>2, <1>3, IdleFacts, FreshCall

LEMMA FinishStep ==
  ASSUME OpInv, Finish
  PROVE  OpInv' /\ call'.at = "idle" /\ UNCHANGED <<obj, side>>
<1>1. /\ call' = Idle /\ UNCHANGED <<case, obj, side, parts, legit, taken, gaps, edits>>
  BY DEF Finish, history
<1>2. Base /\ call \in Calls /\ call.got \in Objects /\ Fit(case.kind, legit, closure.was)
      /\ Fit(case.kind, legit, call.got) /\ closure \in [set : BOOLEAN, was : Objects]
  BY Basics DEF OpInv, Base, Types, TypeOK, Fits
<1> DEFINE kept == [set |-> TRUE, was |-> got]
<1>3. \/ call.op = "inject" /\ call.at = "ok" /\ closure' = kept
      \/ closure' \in {NoClosure, closure}
  BY DEF Finish, Stands
<1>4. kept \in [set : BOOLEAN, was : Objects] /\ kept.set /\ kept.was = call.got
  BY <1>2 DEF got
<1> HIDE DEF kept
<1>5. closure' \in [set : BOOLEAN, was : Objects] /\ Fit(case.kind, legit, closure'.was)
  BY <1>2, <1>3, <1>4, IdleFacts, GoneFits
<1>6. CASE call.op = "inject" /\ call.at = "ok" /\ closure' = kept
  <2>1. Is(InPlace \ {"ClientFault"}) => call.got.here
    BY <1>6 DEF OpInv, Knows, KnowsInPlace, Is
  <2>2. gaps = {} /\ call.got.here /\ Is(InPlace \ {"FinalizerBlock"}) =>
          GenuineIn(legit, call.got.val)
    BY <1>6 DEF OpInv, Relies, ReliesInPlace, Is
  <2>3. ClosureKnown' /\ (gaps = {} => ClosureSound')
    BY <1>1, <1>4, <1>6, <2>1, <2>2 DEF ClosureKnown, ClosureSound, Is
  <2> QED BY <1>1, <1>5, <2>3, IdleFacts, FreshCall
<1>7. CASE closure' \in {NoClosure, closure}
  <2>1. ClosureKnown' /\ (gaps = {} => ClosureSound')
    BY <1>1, <1>2, <1>7, IdleFacts DEF OpInv, Base, SureBase, ClosureKnown, ClosureSound, Is
  <2> QED BY <1>1, <1>5, <2>1, IdleFacts, FreshCall
<1> QED BY <1>3, <1>6, <1>7

LEMMA CrashStep ==
  ASSUME OpInv, Crash
  PROVE  OpInv' /\ call'.at = "idle" /\ UNCHANGED <<obj, side>>
<1>1. /\ call' = Idle /\ closure' = NoClosure
      /\ UNCHANGED <<case, obj, side, parts, legit, taken, gaps, edits>>
  BY DEF Crash, history
<1>2. ClosureKnown' /\ (gaps = {} => ClosureSound')
  BY <1>1, IdleFacts DEF ClosureKnown, ClosureSound
<1> QED BY <1>1, <1>2, IdleFacts, GoneFits, FreshCall

-----------------------------------------------------------------------------
(* Everybody else *)

\* More genuine values never hurt.
LEMMA FitMore ==
  ASSUME NEW k, NEW L, NEW M, L \subseteq M, NEW o
  PROVE  /\ Fit(k, L, o) => Fit(k, M, o)
         /\ Sound(k, L, o) => Sound(k, M, o)
<1>1. \A v : (GenuineIn(L, v) => GenuineIn(M, v)) /\ (Owners(L, v) => Owners(M, v))
  BY GenuineMore
<1>2. ASSUME Fit(k, L, o) PROVE Fit(k, M, o)
  BY <1>1, <1>2 DEF Fit, Guard
<1>3. ASSUME Sound(k, L, o) PROVE Sound(k, M, o)
  BY <1>1, <1>3 DEF Sound, Whole
<1> QED BY <1>2, <1>3

\* A change of the target by others than the operation under way.
LEMMA ChangeKeeps ==
  ASSUME OpInv, legit \subseteq legit', legit' \subseteq Values, edits' \in Nat,
         gaps \subseteq gaps', gaps' \subseteq gaps \cup {"relabelled", "stripped", "overlap"},
         UNCHANGED <<case, side, parts, closure>>,
         call' \in Calls, call'.op = call.op, call'.at = call.at, call'.part = call.part,
         call'.got = call.got, call'.copy = call.copy, call'.failed = call.failed,
         (obj' = obj /\ call'.stale = call.stale) \/ call.at = "idle" \/ call'.stale,
         Fit(case.kind, legit', obj'),
         taken' \in BOOLEAN, taken' => taken /\ (~obj'.here \/ obj'.term) /\ (obj'.here => obj.here),
         gaps' = {} =>
             /\ Sound(case.kind, legit', obj')
             /\ SideFits(obj)'
             /\ \/ /\ call.at = "idle"
                \/ Is(InPlace) /\ ~Is({"FinalizerBlock"}) /\ obj'.here =>
                      (obj.here /\ obj'.val = obj.val) \/ GenuineIn(legit', obj'.val)
  PROVE  OpInv'
<1>1. Base /\ Knows
  BY DEF OpInv
<1>2. \A k, o : /\ Fit(k, legit, o) => Fit(k, legit', o)
                /\ Sound(k, legit, o) => Sound(k, legit', o)
  BY FitMore
<1>3. \A v : GenuineIn(legit, v) => GenuineIn(legit', v)
  BY GenuineMore
<1>4. Fits'
  BY <1>1, <1>2 DEF Base, Fits
<1>5. Types'
  BY <1>1 DEF Base, Types, TypeOK, Fit
<1>6. Base'
  BY <1>1, <1>4, <1>5 DEF Base, SideKnown, Foreign, ClosureKnown, Excused, Is
<1>7. Knows'
  <2>1. KnowsInPlace => KnowsInPlace'
    BY DEF KnowsInPlace, Is
  <2>2. KnowsDeleting => KnowsDeleting'
    BY DEF KnowsDeleting, Foreign, Is
  <2>3. KnowsParts => KnowsParts'
    BY DEF KnowsParts
  <2>4. call'.at \in {"probe", "save", "write"} /\ ~call'.stale => obj' = call'.got
    BY <1>1 DEF Knows
  <2> QED BY <1>1, <2>1, <2>2, <2>3, <2>4 DEF Knows, Is
<1>8. ASSUME gaps' = {} PROVE SureBase'
  <2>1. SureBase
    BY <1>8 DEF OpInv
  <2>2. SideSound'
    BY <1>3, <1>8, <2>1 DEF SureBase, SideSound, OwnBackup, Is
  <2>3. ClosureSound'
    BY <1>3, <2>1 DEF SureBase, ClosureSound, Is
  <2> QED BY <1>2, <1>8, <2>1, <2>2, <2>3 DEF SureBase
<1>9. ASSUME gaps' = {} PROVE Relies'
  <2>1. Relies
    BY <1>9 DEF OpInv
  <2>2. CASE call.at = "idle"
    BY <1>1, <2>2 DEF Knows, Relies, ReliesInPlace, ReliesDeleting, Undo
  <2>3. CASE call.at # "idle"
    <3>1. ASSUME Is(InPlace) PROVE ReliesInPlace'
      <4>1. ~Is({"FinalizerBlock"}) /\ obj'.here =>
              (obj.here /\ obj'.val = obj.val) \/ GenuineIn(legit', obj'.val)
        BY <1>9, <2>3, <3>1
      <4>2. ReliesInPlace
        BY <2>1, <3>1 DEF Relies
      <4>3. Is(CRDs) \/ Is({"SecretDrift"}) => ~Is({"FinalizerBlock"})
        BY DEF Is, CRDs
      <4>4. ASSUME call'.op \in Undo, call'.at = "write", ~Is({"FinalizerBlock"})', obj'.here
            PROVE  obj'.val = call'.got.val \/ GenuineIn(legit', obj'.val)
        BY <1>3, <4>1, <4>2, <4>4 DEF ReliesInPlace, Is
      <4>5. ASSUME Is(CRDs)', obj'.here
            PROVE  /\ call'.at \in {"refetch", "restore"} => obj'.val = Absent \/ GenuineIn(legit', obj'.val)
                   /\ call'.at = "unmark" => GenuineIn(legit', obj'.val)
        BY <1>3, <4>1, <4>2, <4>3, <4>5 DEF ReliesInPlace, Is
      <4>6. ASSUME Is({"SecretDrift"})'
            PROVE  /\ call'.at = "restore" => GenuineIn(legit', call'.copy)
                   /\ call'.at = "drop" /\ obj'.here => GenuineIn(legit', obj'.val)
                   /\ call'.at = "unmark" /\ ~call'.stale /\ obj'.here => GenuineIn(legit', obj'.val)
                   /\ call'.op = "inject" /\ call'.at = "write" => side'.here
        <5>1. Is({"SecretDrift"})
          BY <4>6 DEF Is
        <5>2. /\ call.at = "restore" => GenuineIn(legit, call.copy)
              /\ call.at = "drop" /\ obj.here => GenuineIn(legit, obj.val)
              /\ call.at = "unmark" /\ ~call.stale /\ obj.here => GenuineIn(legit, obj.val)
              /\ call.op = "inject" /\ call.at = "write" => side.here
          BY <5>1, <4>2 DEF ReliesInPlace
        <5> QED BY <5>1, <5>2, <1>3, <2>3, <4>1, <4>3
      <4>7. call'.op = "inject" /\ call'.at = "ok" /\ ~Is({"FinalizerBlock"})' /\ call'.got.here =>
              GenuineIn(legit', call'.got.val)
        BY <1>3, <4>2 DEF ReliesInPlace, Is
      <4> QED BY <4>4, <4>5, <4>6, <4>7 DEF ReliesInPlace
    <3>2. ASSUME Is(Deleting) PROVE ReliesDeleting'
      BY <1>3, <2>1, <3>2 DEF Relies, ReliesDeleting, Foreign, OwnBackup
    <3> QED BY <3>1, <3>2 DEF Relies, Is
  <2> QED BY <2>2, <2>3
<1> QED BY <1>6, <1>7, <1>8, <1>9 DEF OpInv

\* The call under way finds out when it writes.
LEMMA StaleFacts ==
  ASSUME OpInv, call' = call \/ call' = [call EXCEPT !.stale = TRUE],
         call' # call \/ call = Idle \/ obj' = obj \/ call' = [call EXCEPT !.stale = TRUE]
  PROVE  /\ call' \in Calls /\ call'.op = call.op /\ call'.at = call.at /\ call'.part = call.part
         /\ call'.got = call.got /\ call'.copy = call.copy /\ call'.failed = call.failed
         /\ (obj' = obj /\ call'.stale = call.stale) \/ call.at = "idle" \/ call'.stale
<1>1. call \in Calls
  BY Basics DEF OpInv
<1> DEFINE c == [call EXCEPT !.stale = TRUE]
<1>2. /\ c \in Calls /\ c.op = call.op /\ c.at = call.at /\ c.part = call.part
      /\ c.got = call.got /\ c.copy = call.copy /\ c.failed = call.failed /\ c.stale
  BY <1>1 DEF Calls
<1> HIDE DEF c
<1>3. CASE call' = c
  BY <1>2, <1>3
<1>4. CASE call' = call /\ (call = Idle \/ obj' = obj)
  BY <1>1, <1>4, IdleFacts
<1> QED BY <1>3, <1>4 DEF c

LEMMA DisturbFacts ==
  ASSUME OpInv, Disturb
  PROVE  /\ call' \in Calls /\ call'.op = call.op /\ call'.at = call.at /\ call'.part = call.part
         /\ call'.got = call.got /\ call'.copy = call.copy /\ call'.failed = call.failed
         /\ (obj' = obj /\ call'.stale = call.stale) \/ call.at = "idle" \/ call'.stale
         /\ edits' \in Nat /\ UNCHANGED <<case, side, parts, closure, gaps>>
<1>1. call' = call \/ call' = [call EXCEPT !.stale = TRUE]
  BY DEF Disturb
<1>2. call' # call \/ call = Idle \/ call' = [call EXCEPT !.stale = TRUE]
  BY DEF Disturb
<1>3. edits' \in Nat /\ UNCHANGED <<case, side, parts, closure, gaps>>
  BY DEF Disturb, OpInv, Base, Types
<1> QED BY <1>1, <1>2, <1>3, StaleFacts

LEMMA KeysOf ==
  ASSUME NEW L, NEW v \in L
  PROVE  GenuineIn(L, v) /\ (v.t = "map" => Owners(L, v))
  BY DEF GenuineIn, Owners, Keys

LEMMA MapIs ==
  ASSUME NEW v \in Values, v.t = "map"
  PROVE  Map(v.s) = v
  BY DEF Values, Map, Absent

\* A target that somebody has set, or created, and no annotation is new on it.
LEMMA SetFits ==
  ASSUME OpInv, NEW v \in {case.orig, case.edit}, NEW o, o \in Objects, o.here,
         NEW L, L = legit \cup {v},
         \/ ~Is({"FinalizerBlock"}) /\ o.val = v
         \/ Is({"FinalizerBlock"}) /\ o.val = v
         \/ Is({"FinalizerBlock"}) /\ o.val = Map(v.s \cup (obj.val.s \cap {"fault"})) /\ obj.here
                /\ o.mark = obj.mark,
         \/ o.mark = NoMark /\ o.label # "chaos" /\ o.selected
         \/ /\ obj.here /\ o.mark = obj.mark /\ o.label = obj.label /\ o.selected = obj.selected
  PROVE  /\ Fit(case.kind, L, o)
         /\ Sound(case.kind, legit, obj) => Sound(case.kind, L, o)
         /\ ~Is({"FinalizerBlock"}) => GenuineIn(L, o.val)
<1>1. v \in L /\ v \in Values /\ L \subseteq Values /\ legit \subseteq L /\ case \in Cases
      /\ obj \in Objects
  BY Basics DEF OpInv
<1>2. /\ Is({"OwnerRefOrphan"}) => v.t = "map"
      /\ Is({"FinalizerBlock"}) => v.t = "map" /\ "fault" \notin v.s
  BY <1>1, CasesAssumption DEF Is
<1>3. GenuineIn(L, v) /\ (v.t = "map" => Owners(L, v))
  BY <1>1, KeysOf
<1>4. o.mark \in Marks(case.kind)
  BY DEF OpInv, Base, Fits, Fit, Marks
<1>5. CASE Is({"FinalizerBlock"})
  <2>1. v.t = "map" /\ v.s \subseteq Atoms /\ "fault" \notin v.s
    BY <1>1, <1>2, <1>5, ValueFields
  <2> DEFINE w == v.s \cup (obj.val.s \cap {"fault"})
  <2>2. w \subseteq Atoms /\ w \ {"fault"} = v.s
    BY <2>1 DEF Atoms
  <2>3. CASE o.val = v
    <3>1. o.val.t = "map" /\ o.val.s \ {"fault"} = v.s
      BY <2>1, <2>3
    <3>2. Map(o.val.s \ {"fault"}) = v
      BY <2>1, <3>1, <1>1, MapIs
    <3>3. Fit(case.kind, L, o)
      BY <3>1, <3>2, <1>1, <1>4, <1>5 DEF Fit, Guard, Webhooks, Is
    <3>4. Sound(case.kind, legit, obj) => Sound(case.kind, L, o)
      BY <2>1, <2>3, <1>5 DEF Sound, Whole, Is, InPlace, Valued, Diffed, Webhooks
    <3> QED BY <3>3, <3>4, <1>5
  <2>4. CASE o.val = Map(w) /\ obj.here /\ o.mark = obj.mark
    <3>1. o.val.t = "map" /\ o.val.s = w
      BY <2>2, <2>4, MapValue
    <3>2. Map(o.val.s \ {"fault"}) = v
      BY <2>1, <2>2, <3>1, <1>1, MapIs
    <3>3. Fit(case.kind, L, o)
      BY <3>1, <3>2, <1>1, <1>4, <1>5 DEF Fit, Guard, Webhooks, Is
    <3>4. ASSUME Sound(case.kind, legit, obj), o.mark = NoMark PROVE o.label # "chaos" /\ "fault" \notin o.val.s
      <4>1. obj.label # "chaos" /\ "fault" \notin obj.val.s
        BY <3>4, <2>4, <1>5 DEF Sound, Whole, Is, InPlace
      <4> QED BY <4>1, <3>1, <2>1
    <3>5. Sound(case.kind, legit, obj) => Sound(case.kind, L, o)
      BY <3>4, <1>5 DEF Sound, Whole, Is, InPlace, Valued, Diffed, Webhooks
    <3> QED BY <3>3, <3>5, <1>5
  <2> HIDE DEF w
  <2> QED BY <1>5, <2>3, <2>4 DEF w
<1>6. CASE ~Is({"FinalizerBlock"})
  <2>1. o.val = v /\ case.kind # "FinalizerBlock"
    BY <1>6 DEF Is
  <2>2. \A u : (GenuineIn(legit, u) => GenuineIn(L, u)) /\ (Owners(legit, u) => Owners(L, u))
    BY <1>1, GenuineMore
  <2>3. o.mark \in Values => obj.here /\ o.mark = obj.mark
    BY ValueFacts
  <2>4. Guard(case.kind, legit, obj) \/ ~obj.here
    BY DEF OpInv, Base, Fits, Fit
  <2>5. Guard(case.kind, L, o)
    BY <2>1, <2>2, <2>3, <2>4, <1>1, <1>2, <1>3 DEF Guard, Is
  <2>6. Sound(case.kind, legit, obj) => Sound(case.kind, L, o)
    BY <2>1, <2>2, <2>3, <1>3 DEF Sound, Whole
  <2> QED BY <2>1, <2>5, <2>6, <1>3, <1>4 DEF Fit
<1> QED BY <1>5, <1>6

LEMMA EditStep ==
  ASSUME OpInv, Edit
  PROVE  OpInv'
<1>1. PICK v \in {case.orig, case.edit} :
        /\ obj' = With(obj, IF Is({"FinalizerBlock"})
                            THEN Map(v.s \cup (obj.val.s \cap {"fault"})) ELSE v)
        /\ legit' = legit \cup {v}
  BY DEF Edit
<1>2. obj.here /\ Disturb /\ taken' = taken
  BY DEF Edit
<1>3. obj \in Objects /\ v \in Values /\ legit \subseteq Values /\ taken \in BOOLEAN
  BY Basics DEF OpInv, Base, Types, TypeOK
<1> DEFINE w == IF Is({"FinalizerBlock"}) THEN Map(v.s \cup (obj.val.s \cap {"fault"})) ELSE v
<1>4. w \in Values
  <2>1. v.s \cup (obj.val.s \cap {"fault"}) \subseteq Atoms
    BY <1>3, ValueFields DEF Atoms
  <2> QED BY <2>1, <1>3, MapValue
<1>5. /\ Is({"FinalizerBlock"}) => w = Map(v.s \cup (obj.val.s \cap {"fault"}))
      /\ ~Is({"FinalizerBlock"}) => w = v
  OBVIOUS
<1>6. obj' = With(obj, w)
  BY <1>1
<1> HIDE DEF w
<1>7. /\ obj' \in Objects /\ obj'.val = w /\ obj'.mark = obj.mark /\ obj'.here /\ obj'.term = obj.term
      /\ obj'.label = obj.label /\ obj'.selected = obj.selected
  BY <1>2, <1>3, <1>4, <1>6, WithFacts
<1>8. /\ Fit(case.kind, legit', obj')
      /\ Sound(case.kind, legit, obj) => Sound(case.kind, legit', obj')
      /\ ~Is({"FinalizerBlock"}) => GenuineIn(legit', obj'.val)
  BY <1>1, <1>2, <1>5, <1>7, SetFits
<1>9. taken => ~obj.here \/ obj.term
  BY DEF OpInv, Base, SideKnown
<1>10. /\ legit \subseteq legit' /\ legit' \subseteq Values /\ gaps' = gaps
       /\ UNCHANGED <<case, side, parts, closure>>
  BY <1>1, <1>2, <1>3, DisturbFacts
<1>11. SideFits(obj)'
  BY <1>8, <1>10 DEF SideFits, Is, Deleting
<1>12. gaps = {} => Sound(case.kind, legit, obj)
  BY DEF OpInv, SureBase
<1> QED BY <1>2, <1>3, <1>7, <1>8, <1>9, <1>10, <1>11, <1>12, DisturbFacts, ChangeKeeps

LEMMA RecreateStep ==
  ASSUME OpInv, Recreate
  PROVE  OpInv'
<1> DEFINE label == IF Is(Creating) THEN "owner" ELSE "none"
           o == [Gone EXCEPT !.here = TRUE, !.val = case.edit, !.selected = TRUE, !.label = label]
<1>1. obj' = o /\ legit' = legit \cup {case.edit} /\ taken' = FALSE /\ Disturb
  BY DEF Recreate
<1>2. case.edit \in Values /\ legit \subseteq Values
  BY Basics DEF OpInv
<1>3. label \in {"owner", "none"}
  OBVIOUS
<1> HIDE DEF label
<1>4. /\ o \in Objects /\ o.here /\ o.val = case.edit /\ o.mark = NoMark /\ o.selected
      /\ o.label = label
  BY <1>2, <1>3, GoneFacts DEF Objects
<1> HIDE DEF o
<1>5. /\ Fit(case.kind, legit', o)
      /\ Sound(case.kind, legit, obj) => Sound(case.kind, legit', o)
      /\ ~Is({"FinalizerBlock"}) => GenuineIn(legit', o.val)
  BY <1>1, <1>3, <1>4, SetFits
<1>6. /\ legit \subseteq legit' /\ legit' \subseteq Values /\ gaps' = gaps
      /\ UNCHANGED <<case, side, parts, closure>>
  BY <1>1, <1>2, DisturbFacts
<1>7. SideFits(obj)'
  BY <1>1, <1>5, <1>6 DEF SideFits, Is, Deleting
<1>8. gaps = {} => Sound(case.kind, legit, obj)
  BY DEF OpInv, SureBase
<1> QED BY <1>1, <1>5, <1>6, <1>7, <1>8, DisturbFacts, ChangeKeeps

\* The target goes, or is marked for deletion, or its annotation is destroyed.
LEMMA LessKeeps ==
  ASSUME OpInv, legit' = legit, edits' \in Nat, gaps \subseteq gaps',
         gaps' \subseteq gaps \cup {"relabelled", "stripped", "overlap"},
         UNCHANGED <<case, side, parts, closure, taken>>,
         call' \in Calls, call'.op = call.op, call'.at = call.at, call'.part = call.part,
         call'.got = call.got, call'.copy = call.copy, call'.failed = call.failed,
         (obj' = obj /\ call'.stale = call.stale) \/ call.at = "idle" \/ call'.stale,
         obj' \in Objects,
         \/ ~obj'.here
         \/ /\ obj.here /\ obj'.val = obj.val /\ obj'.label = obj.label
            /\ obj.term => obj'.term
            /\ obj'.mark = obj.mark \/ (obj'.mark = Corrupt /\ obj.mark # NoMark)
            /\ obj'.selected = obj.selected \/ "relabelled" \in gaps'
  PROVE  OpInv'
<1>1. Base /\ taken \in BOOLEAN /\ legit \subseteq Values
  BY DEF OpInv, Base, Types, TypeOK
<1>2. obj'.here => obj.here /\ Fit(case.kind, legit, obj)
  BY <1>1 DEF Base, Fits
<1>3. Fit(case.kind, legit', obj')
  <2>1. CASE obj'.here /\ obj'.mark = obj.mark
    BY <1>2, <2>1 DEF Fit, Guard
  <2>2. CASE obj'.here /\ obj'.mark = Corrupt /\ obj.mark # NoMark
    BY <1>2, <2>2, ValueFacts DEF Fit, Guard, Marks, Valued, InPlace
  <2>3. CASE ~obj'.here
    BY <2>3 DEF Fit
  <2> QED BY <2>1, <2>2, <2>3
<1>4. taken => ~obj.here \/ obj.term
  BY <1>1 DEF Base, SideKnown
<1>5. ASSUME gaps' = {} PROVE Sound(case.kind, legit', obj') /\ SideFits(obj)'
  <2>1. Sound(case.kind, legit, obj) /\ SideFits(obj)
    BY <1>5 DEF OpInv, SureBase, SideSound
  <2>2. Sound(case.kind, legit', obj')
    BY <2>1, <1>2, <1>5, ValueFacts DEF Sound
  <2>3. SideFits(obj)'
    BY <2>1, <1>2, ValueFacts DEF SideFits, Foreign, Is
  <2> QED BY <2>2, <2>3
<1> QED BY <1>1, <1>2, <1>3, <1>4, <1>5, ChangeKeeps

LEMMA RemoveStep ==
  ASSUME OpInv, Remove
  PROVE  OpInv'
<1>1. obj.here /\ Disturb /\ legit' = legit /\ taken' = taken
  BY DEF Remove
<1>2. obj \in Objects
  BY Basics DEF OpInv
<1> DEFINE o == [obj EXCEPT !.term = TRUE]
<1>3. /\ o \in Objects /\ o.here = obj.here /\ o.val = obj.val /\ o.mark = obj.mark
      /\ o.label = obj.label /\ o.selected = obj.selected /\ o.term
  BY <1>2 DEF Objects
<1> HIDE DEF o
<1>4. obj' \in {o, Gone}
  BY DEF Remove, Deleted, o
<1> QED BY <1>1, <1>3, <1>4, GoneFacts, DisturbFacts, LessKeeps

LEMMA TamperStep ==
  ASSUME OpInv, Tamper
  PROVE  OpInv'
<1>1. obj.mark # NoMark /\ Disturb /\ legit' = legit /\ taken' = taken
      /\ obj' = [obj EXCEPT !.mark = Corrupt]
  BY DEF Tamper
<1>2. obj \in Objects
  BY Basics DEF OpInv
<1>3. /\ obj' \in Objects /\ obj'.here = obj.here /\ obj'.val = obj.val /\ obj'.mark = Corrupt
      /\ obj'.label = obj.label /\ obj'.selected = obj.selected /\ obj'.term = obj.term
  BY <1>1, <1>2 DEF Objects
<1> QED BY <1>1, <1>2, <1>3, DisturbFacts, LessKeeps DEF Objects

LEMMA RelabelStep ==
  ASSUME OpInv, Relabel
  PROVE  OpInv'
<1>1. /\ obj' = [obj EXCEPT !.selected = FALSE] /\ gaps' = gaps \cup {"relabelled"}
      /\ UNCHANGED <<case, side, parts, closure, legit, taken>> /\ edits' = edits + 1
      /\ call' = IF call = Idle THEN call ELSE [call EXCEPT !.stale = TRUE]
  BY DEF Relabel
<1>2. obj \in Objects /\ edits' \in Nat
  BY <1>1, Basics DEF OpInv, Base, Types
<1>3. /\ obj' \in Objects /\ obj'.here = obj.here /\ obj'.val = obj.val /\ obj'.mark = obj.mark
      /\ obj'.label = obj.label /\ obj'.term = obj.term
  BY <1>1, <1>2 DEF Objects
<1>4. /\ call' \in Calls /\ call'.op = call.op /\ call'.at = call.at /\ call'.part = call.part
      /\ call'.got = call.got /\ call'.copy = call.copy /\ call'.failed = call.failed
      /\ (obj' = obj /\ call'.stale = call.stale) \/ call.at = "idle" \/ call'.stale
  BY <1>1, StaleFacts
<1> QED BY <1>1, <1>2, <1>3, <1>4, LessKeeps DEF Objects

LEMMA VanishStep ==
  ASSUME OpInv, Vanish
  PROVE  OpInv'
<1>1. /\ obj' = Gone /\ UNCHANGED <<case, side, parts, closure, legit, taken, gaps, edits>>
      /\ call' = IF call = Idle THEN call ELSE [call EXCEPT !.stale = TRUE]
  BY DEF Vanish, history
<1>2. edits' \in Nat
  BY <1>1 DEF OpInv, Base, Types
<1>3. /\ call' \in Calls /\ call'.op = call.op /\ call'.at = call.at /\ call'.part = call.part
      /\ call'.got = call.got /\ call'.copy = call.copy /\ call'.failed = call.failed
      /\ (obj' = obj /\ call'.stale = call.stale) \/ call.at = "idle" \/ call'.stale
  BY <1>1, StaleFacts
<1> QED BY <1>1, <1>2, <1>3, GoneFacts, LessKeeps

-----------------------------------------------------------------------------
(* Every step of the operations and of their surroundings *)

LEMMA ByKind ==
  ASSUME Operation
  PROVE  /\ Is(Deleting) =>
              \/ SecretDeletionInject \/ LeaderElectionInject \/ ResourceDeletionInject
              \/ NamespaceDeletionInject
              \/ RestoreSecret \/ RestoreLease \/ RestoreResource \/ RestoreNamespace
         /\ Is({"PDBBlock", "QuotaExhaustion"}) =>
              \/ PDBBlockInject \/ DeletePDB
              \/ QuotaExhaustionInject \/ QuotaExhaustionCleanup \/ QuotaExhaustionRevert
         /\ Is({"ClientFault"}) => ClientFaultInject \/ ClientFaultCleanup \/ ClientFaultRevert
<1> DEFINE Elsewhere == /\ ~Is(Deleting) /\ ~Is({"PDBBlock", "QuotaExhaustion"})
                        /\ ~Is({"ClientFault"})
<1>1. ASSUME RBACRevokeInject \/ RBACRevokeRevert \/ ConfigMapInject \/ ConfigMapRevert
      PROVE  Elsewhere
  BY <1>1 DEF RBACRevokeInject, RBACRevokeRevert, ConfigMapInject, ConfigMapRevert, Is, Deleting
<1>2. ASSUME SecretInject \/ SecretRevert \/ WebhookDisruptInject \/ WebhookDisruptRevert \/ RestorePolicies
      PROVE  Elsewhere
  BY <1>2 DEF SecretInject, SecretRevert, WebhookDisruptInject, WebhookDisruptRevert, RestorePolicies, Is, Deleting
<1>3. ASSUME FinalizerBlockInject \/ FinalizerBlockCleanup \/ FinalizerBlockRevert
      PROVE  Elsewhere
  BY <1>3 DEF FinalizerBlockInject, FinalizerBlockCleanup, FinalizerBlockRevert, Is, Deleting
<1>4. ASSUME ClientFaultInject \/ ClientFaultCleanup \/ ClientFaultRevert
      PROVE  ~Is(Deleting) /\ ~Is({"PDBBlock", "QuotaExhaustion"})
  BY <1>4 DEF ClientFaultInject, ClientFaultCleanup, ClientFaultRevert, Is, Deleting
<1>5. ASSUME CRDMutationInject \/ CRDMutationCleanup \/ CRDMutationRevert
      PROVE  Elsewhere
  BY <1>5 DEF CRDMutationInject, CRDMutationCleanup, CRDMutationRevert, Is, Deleting
<1>6. ASSUME OwnerRefOrphanInject \/ OwnerRefOrphanCleanup \/ OwnerRefOrphanRevert
      PROVE  Elsewhere
  BY <1>6 DEF OwnerRefOrphanInject, OwnerRefOrphanCleanup, OwnerRefOrphanRevert, Is, Deleting
<1>7. ASSUME LabelStompingInject \/ LabelStompingCleanup \/ LabelStompingRevert
      PROVE  Elsewhere
  BY <1>7 DEF LabelStompingInject, LabelStompingCleanup, LabelStompingRevert, Is, Deleting
<1>8. ASSUME ScaleZeroInject \/ ScaleZeroRestore \/ CrashLoopInject \/ CrashLoopRestore
      PROVE  Elsewhere
  BY <1>8 DEF ScaleZeroInject, ScaleZeroRestore, CrashLoopInject, CrashLoopRestore, Is, Deleting
<1>9. ASSUME ImageCorruptInject \/ ImageCorruptRestore
      PROVE  Elsewhere
  BY <1>9 DEF ImageCorruptInject, ImageCorruptRestore, Is, Deleting
<1>10. ASSUME NetworkPartitionInject \/ NetworkPartitionRevert
      PROVE  Elsewhere
  BY <1>10 DEF NetworkPartitionInject, NetworkPartitionRevert, Is, Deleting
<1>11. ASSUME WebhookLatencyInject \/ WebhookLatencyRevert \/ CleanupResources
      PROVE  Elsewhere
  BY <1>11 DEF WebhookLatencyInject, WebhookLatencyRevert, CleanupResources, Is, Deleting
<1>12. ASSUME \/ PDBBlockInject \/ DeletePDB
              \/ QuotaExhaustionInject \/ QuotaExhaustionCleanup \/ QuotaExhaustionRevert
      PROVE  ~Is(Deleting) /\ ~Is({"ClientFault"})
  BY <1>12 DEF PDBBlockInject, DeletePDB, QuotaExhaustionInject, QuotaExhaustionCleanup,
              QuotaExhaustionRevert, Is, Deleting
<1>13. ASSUME \/ SecretDeletionInject \/ LeaderElectionInject \/ ResourceDeletionInject
              \/ NamespaceDeletionInject
              \/ RestoreSecret \/ RestoreLease \/ RestoreResource \/ RestoreNamespace
      PROVE  ~Is({"PDBBlock", "QuotaExhaustion"}) /\ ~Is({"ClientFault"})
  BY <1>13 DEF SecretDeletionInject, LeaderElectionInject, ResourceDeletionInject,
              NamespaceDeletionInject, RestoreSecret, RestoreLease, RestoreResource,
              RestoreNamespace, Is
<1> QED BY <1>1, <1>2, <1>3, <1>4, <1>5, <1>6, <1>7,
          <1>8, <1>9, <1>10, <1>11, <1>12, <1>13 DEF Operation, Inject, Cleanup, Revert

\* What others own is left alone, unless the operation has read it before it
\* changed, or does not look.
ForeignTargetKept ==
    Is({"PDBBlock", "QuotaExhaustion"}) /\ obj.here /\ ~Ours(obj) /\ obj' # obj =>
        edits' # edits \/ call.stale \/ (Is({"QuotaExhaustion"}) /\ call.op = "cleanup")
ForeignBackupKept ==
    side.here /\ ~side.managed /\ side' # side => call.op \in Undo /\ ~Is({"SecretDeletion"})

LEMMA ForeignTarget ==
  ASSUME OpInv, Operation
  PROVE  ForeignTargetKept
<1> SUFFICES ASSUME Is({"PDBBlock", "QuotaExhaustion"}), obj.here, ~Ours(obj), obj' # obj,
                    ~call.stale
             PROVE  Is({"QuotaExhaustion"}) /\ call.op = "cleanup"
  BY DEF ForeignTargetKept
<1>1. call.at # "write"
  BY DEF OpInv, Knows, Ours
<1>2. ~PDBBlockInject
  BY <1>1 DEF PDBBlockInject, Get, Update, Create, Write, Stands
<1>3. ~DeletePDB
  BY <1>1 DEF DeletePDB, Get, DeleteTarget, Stands
<1>4. ~QuotaExhaustionInject
  BY <1>1 DEF QuotaExhaustionInject, Get, Create, Write, Stands
<1>5. ~QuotaExhaustionRevert
  BY <1>1 DEF QuotaExhaustionRevert, Get, DeleteTarget, Stands
<1>6. \/ PDBBlockInject \/ DeletePDB
      \/ QuotaExhaustionInject \/ QuotaExhaustionCleanup \/ QuotaExhaustionRevert
  BY ByKind
<1>7. QuotaExhaustionCleanup
  BY <1>2, <1>3, <1>4, <1>5, <1>6
<1> QED BY <1>7 DEF QuotaExhaustionCleanup, DeleteTarget, Stands

LEMMA ForeignBackup ==
  ASSUME OpInv, Operation
  PROVE  ForeignBackupKept
<1> SUFFICES ASSUME Foreign, side' # side
             PROVE  call.op \in Undo /\ ~Is({"SecretDeletion"})
  BY DEF ForeignBackupKept, Foreign
<1>1. Is(Deleting) /\ KnowsDeleting
  BY DEF OpInv, Base, Knows, SideKnown
<1>2. ~SaveBackup /\ ~DeleteSaved
  BY <1>1 DEF KnowsDeleting, SaveBackup, DeleteSaved, Get, ReadSide, WriteSide, DeleteTarget, Stands
<1>a. \/ SecretDeletionInject \/ LeaderElectionInject \/ ResourceDeletionInject
      \/ NamespaceDeletionInject
      \/ RestoreSecret \/ RestoreLease \/ RestoreResource \/ RestoreNamespace
  BY <1>1, ByKind
<1>3. \E missing : DropBackup(missing)
  BY <1>2, <1>a
  DEF SecretDeletionInject, LeaderElectionInject, ResourceDeletionInject, NamespaceDeletionInject,
      RestoreSecret, RestoreLease, RestoreResource, RestoreNamespace, GetBackup, ReadSide, Look,
      Create, Write
<1>4. call.op \in Undo /\ call.at = "drop"
  BY <1>3 DEF DropBackup, Stands
<1> QED BY <1>1, <1>4 DEF KnowsDeleting

\* The case stays, genuine values and gaps are never forgotten.
Grows == case' = case /\ legit \subseteq legit' /\ gaps \subseteq gaps'

LEMMA OperationGrows ==
  ASSUME Operation
  PROVE  Grows
<1> USE DEF Grows, Get, GetMarked, GetExisting, Look, Write, Update, Patch, Create,
            DeleteTarget, WriteSide, ReadSide, history
<1>1. CASE RBACRevokeInject \/ RBACRevokeRevert \/ ConfigMapInject \/ ConfigMapRevert
  BY <1>1 DEF RBACRevokeInject, RBACRevokeRevert, ConfigMapInject, ConfigMapRevert
<1>2. CASE SecretInject \/ SecretRevert
  BY <1>2 DEF SecretInject, SecretRevert
<1>3. CASE WebhookDisruptInject \/ WebhookDisruptRevert \/ RestorePolicies
  BY <1>3 DEF WebhookDisruptInject, WebhookDisruptRevert, RestorePolicies
<1>4. CASE FinalizerBlockInject \/ FinalizerBlockCleanup \/ FinalizerBlockRevert
  BY <1>4 DEF FinalizerBlockInject, FinalizerBlockCleanup, FinalizerBlockRevert
<1>5. CASE ClientFaultInject \/ ClientFaultCleanup \/ ClientFaultRevert
  BY <1>5 DEF ClientFaultInject, ClientFaultCleanup, ClientFaultRevert
<1>6. CASE CRDMutationInject \/ CRDMutationCleanup \/ CRDMutationRevert
  BY <1>6 DEF CRDMutationInject, CRDMutationCleanup, CRDMutationRevert, RestoreField
<1>7. CASE OwnerRefOrphanInject \/ OwnerRefOrphanCleanup \/ OwnerRefOrphanRevert
  BY <1>7 DEF OwnerRefOrphanInject, OwnerRefOrphanCleanup, OwnerRefOrphanRevert, RestoreOwners
<1>8. CASE LabelStompingInject \/ LabelStompingCleanup \/ LabelStompingRevert
  BY <1>8 DEF LabelStompingInject, LabelStompingCleanup, LabelStompingRevert
<1>9. CASE \/ ScaleZeroInject \/ ScaleZeroRestore \/ CrashLoopInject \/ CrashLoopRestore
           \/ ImageCorruptInject \/ ImageCorruptRestore
  BY <1>9 DEF ScaleZeroInject, ScaleZeroRestore, CrashLoopInject, CrashLoopRestore,
              ImageCorruptInject, ImageCorruptRestore, PatchDiff
<1>10. CASE SaveBackup \/ DeleteSaved \/ \E missing : DropBackup(missing)
  BY <1>10 DEF SaveBackup, DeleteSaved, DropBackup
<1>11. CASE \/ SecretDeletionInject \/ LeaderElectionInject \/ ResourceDeletionInject
            \/ NamespaceDeletionInject
            \/ RestoreSecret \/ RestoreLease \/ RestoreResource \/ RestoreNamespace
  BY <1>10, <1>11 DEF SecretDeletionInject, LeaderElectionInject, ResourceDeletionInject,
     NamespaceDeletionInject, RestoreSecret, RestoreLease, RestoreResource, RestoreNamespace,
     GetBackup
<1>12. CASE \/ NetworkPartitionInject \/ NetworkPartitionRevert \/ PDBBlockInject \/ DeletePDB
            \/ QuotaExhaustionInject \/ QuotaExhaustionCleanup \/ QuotaExhaustionRevert
  BY <1>12 DEF NetworkPartitionInject, NetworkPartitionRevert, PDBBlockInject, DeletePDB,
     QuotaExhaustionInject, QuotaExhaustionCleanup, QuotaExhaustionRevert
<1>13. CASE WebhookLatencyInject \/ WebhookLatencyRevert \/ CleanupResources
  BY <1>13 DEF WebhookLatencyInject, WebhookLatencyRevert, CleanupResources, CreateParts
<1> QED BY <1>1, <1>2, <1>3, <1>4, <1>5, <1>6, <1>7, <1>8, <1>9, <1>11, <1>12, <1>13
        DEF Operation, Inject, Cleanup, Revert

LEMMA NextStep ==
  ASSUME OpInv, Next
  PROVE  OpInv' /\ Grows /\ Back /\ Undone /\ ForeignTargetKept /\ ForeignBackupKept
<1>1. CASE Operation
  BY <1>1, OperationStep, OperationGrows, ForeignTarget, ForeignBackup
<1>2. CASE \E op \in {"inject"} \cup Undo : Start(op)
  <2>1. PICK op \in {"inject"} \cup Undo : Start(op)
    BY <1>2
  <2>2. OpInv' /\ call'.at = "get" /\ UNCHANGED <<obj, side>>
    BY <2>1, StartStep
  <2>3. Grows
    BY <2>1 DEF Start, Grows
  <2> QED BY <2>2, <2>3 DEF Back, Undone, ForeignTargetKept, ForeignBackupKept
<1>3. CASE Finish \/ Crash
  <2>1. OpInv' /\ call'.at = "idle" /\ UNCHANGED <<obj, side>>
    BY <1>3, FinishStep, CrashStep
  <2>2. Grows
    BY <1>3 DEF Finish, Crash, history, Grows
  <2> QED BY <2>1, <2>2 DEF Back, Undone, ForeignTargetKept, ForeignBackupKept
<1>4. CASE Environment
  <2>1. OpInv'
    BY <1>4, EditStep, RecreateStep, RemoveStep, TamperStep, RelabelStep, VanishStep DEF Environment
  <2>2. Grows /\ side' = side
    BY <1>4 DEF Environment, Edit, Recreate, Remove, Tamper, Relabel, Vanish, Disturb, history, Grows
  <2>3. call'.at = call.at
    <3>1. call' = call \/ call' = [call EXCEPT !.stale = TRUE]
      BY <1>4 DEF Environment, Edit, Recreate, Remove, Tamper, Relabel, Vanish, Disturb
    <3> QED BY <3>1, Basics DEF OpInv, Calls
  <2>4. ForeignTargetKept
    <3>1. CASE Vanish
      <4>1. Is(Deleting)
        BY <3>1, Basics, CasesAssumption DEF Vanish, Is, OpInv
      <4> QED BY <4>1, DeletingFacts DEF ForeignTargetKept
    <3>2. CASE Edit \/ Recreate \/ Remove \/ Tamper \/ Relabel
      <4>1. edits \in Nat /\ edits' = edits + 1
        BY <3>2 DEF Edit, Recreate, Remove, Tamper, Relabel, Disturb, OpInv, Base, Types
      <4> QED BY <4>1 DEF ForeignTargetKept
    <3> QED BY <1>4, <3>1, <3>2 DEF Environment
  <2> QED BY <2>1, <2>2, <2>3, <2>4 DEF Back, Undone, ForeignBackupKept
<1> QED BY <1>1, <1>2, <1>3, <1>4 DEF Next

LEMMA InitStep ==
  ASSUME Init
  PROVE  OpInv
<1> DEFINE o == [Gone EXCEPT !.here = TRUE, !.val = case.orig, !.label = case.label, !.selected = TRUE]
<1>1. /\ case \in Cases /\ (IF case.here THEN obj = o ELSE obj = Gone)
      /\ side = [NoBackup EXCEPT !.here = case.foreign]
      /\ parts = {} /\ call = Idle /\ closure = NoClosure
      /\ legit = {case.orig} /\ taken = FALSE /\ gaps = {} /\ edits = 0
  BY DEF Init
<1>2. /\ case \in Targets /\ case.orig \in Values /\ case.kind \in Kinds
      /\ case.foreign => case.kind \in Deleting
      /\ case.kind \in {"OwnerRefOrphan", "FinalizerBlock"} => case.orig.t = "map"
      /\ case.kind = "FinalizerBlock" => "fault" \notin case.orig.s
      /\ case.label \in {"none", "owner"} /\ case.foreign \in BOOLEAN
  BY <1>1, CasesAssumption DEF Targets
<1>3. /\ o \in Objects /\ o.here /\ o.val = case.orig /\ o.mark = NoMark
      /\ o.label = case.label /\ o.selected
  BY <1>2, GoneFacts DEF Objects
<1> HIDE DEF o
<1>4. case.orig \in legit /\ GenuineIn(legit, case.orig)
      /\ (case.orig.t = "map" => Owners(legit, case.orig) /\ Map(case.orig.s) = case.orig)
  BY <1>1, <1>2, KeysOf, MapIs
<1>5. obj \in {o, Gone}
  BY <1>1
<1>6. Fit(case.kind, legit, o)
  <2>1. case.kind = "FinalizerBlock" => o.val.s \ {"fault"} = case.orig.s
    BY <1>2, <1>3
  <2>2. case.kind = "FinalizerBlock" => Map(o.val.s \ {"fault"}) \in legit
    BY <2>1, <1>2, <1>4
  <2> QED BY <2>2, <1>2, <1>3, <1>4, ValueFacts DEF Fit, Guard, Marks
<1>7. Sound(case.kind, legit, o)
  BY <1>2, <1>3, <1>4, ValueFacts DEF Sound, Whole
<1>8. SideFits(o)
  BY <1>3, <1>4, ValueFacts DEF SideFits
<1>9. /\ side.here = case.foreign /\ ~side.managed /\ side.val = Absent
      /\ side \in [here : BOOLEAN, val : Values, managed : BOOLEAN]
  BY <1>1, <1>2, ValueFacts DEF NoBackup
<1>10. obj \in Objects /\ Fit(case.kind, legit, obj) /\ Sound(case.kind, legit, obj) /\ SideFits(obj)
  BY <1>3, <1>5, <1>6, <1>7, <1>8, GoneFits, GoneFacts
<1>11. Base
  <2>1. TypeOK
    BY <1>1, <1>9, <1>10, IdleFacts DEF TypeOK
  <2>2. Types /\ Fits
    BY <2>1, <1>1, <1>2, <1>10, IdleFacts, GoneFits DEF Types, Fits
  <2>3. SideKnown /\ ClosureKnown /\ Excused
    BY <1>1, <1>2, <1>9, IdleFacts DEF SideKnown, ClosureKnown, Excused, Foreign, Is
  <2> QED BY <2>2, <2>3 DEF Base
<1>12. Knows
  BY <1>1, IdleFacts DEF Knows, KnowsInPlace, KnowsDeleting, KnowsParts, Ends, Undo
<1>13. Relies
  BY <1>1, IdleFacts DEF Relies, ReliesInPlace, ReliesDeleting, Undo
<1>14. SureBase
  <2>1. Is({"SecretDrift"}) => ~case.foreign
    BY <1>2 DEF Is, Deleting
  <2> QED BY <2>1, <1>1, <1>9, <1>10, IdleFacts, GoneFits
          DEF SureBase, SideSound, ClosureSound, OwnBackup
<1> QED BY <1>11, <1>12, <1>13, <1>14 DEF OpInv

LEMMA OpInvUnchanged ==
  ASSUME OpInv, UNCHANGED vars
  PROVE  OpInv' /\ Back /\ Undone /\ ForeignTargetKept /\ ForeignBackupKept
<1>1. UNCHANGED <<case, obj, side, parts, call, closure, legit, taken, gaps, edits>>
  BY DEF vars
<1>2. edits \in Nat /\ legit \subseteq Values /\ call \in Calls /\ Fit(case.kind, legit, obj)
      /\ taken \in BOOLEAN /\ (taken => ~obj.here \/ obj.term)
  BY Basics DEF OpInv, Base, Types, TypeOK, Fits, SideKnown
<1>3. gaps = {} => Sound(case.kind, legit, obj) /\ SideFits(obj)
  BY DEF OpInv, SureBase, SideSound
<1>4. gaps' = {} => SideFits(obj)'
  BY <1>1, <1>3 DEF SideFits, Foreign, Is
<1>5. OpInv'
  BY <1>1, <1>2, <1>3, <1>4, ChangeKeeps
<1> QED BY <1>1, <1>5 DEF Back, Undone, ForeignTargetKept, ForeignBackupKept

-----------------------------------------------------------------------------
(* The sweep *)

Sweeps == [step : 0..11, at : {"idle", "list", "write", "drop"}, seen : Objects,
           stale : BOOLEAN, calm : BOOLEAN]
\* What a sweep knows where it stands: it acts on what it has listed.
SweepKnown ==
    /\ sweep \in Sweeps
    /\ sweep.step = 0 <=> sweep.at = "idle"
    /\ sweep.step # 0 => Finds(sweep.step)
    /\ sweep.at = "write" => /\ sweep.seen.here
                             /\ ~sweep.stale => obj = sweep.seen
                             /\ sweep.step \in 6..10 => sweep.seen.mark \notin {NoMark, Corrupt}
    /\ sweep.at = "drop" => sweep.step = 9 /\ Is({"SecretDrift"})
SweepInv ==
    /\ SweepKnown /\ Fit(case.kind, legit, sweep.seen)
    /\ gaps = {} => Sound(case.kind, legit, sweep.seen)
CleanInv == OpInv /\ SweepInv

\* What a step of a sweep owes.
Promised == CleanInv' /\ Grows /\ Back /\ Undone /\ ForeignTargetKept /\ ForeignBackupKept

LEMMA LeastOf ==
  ASSUME NEW S, S \subseteq 1..11, S # {}
  PROVE  Min(S) \in S /\ \A n \in S : Min(S) =< n
<1>1. \E x \in S : \A y \in S : x =< y
  <2>1. CASE 1 \in S
    BY <2>1
  <2>2. CASE 1 \notin S /\ 2 \in S
    BY <2>2
  <2>3. CASE 1 \notin S /\ 2 \notin S /\ 3 \in S
    BY <2>3
  <2>4. CASE S \cap 1..3 = {} /\ 4 \in S
    BY <2>4
  <2>5. CASE S \cap 1..4 = {} /\ 5 \in S
    BY <2>5
  <2>6. CASE S \cap 1..5 = {} /\ 6 \in S
    BY <2>6
  <2>7. CASE S \cap 1..6 = {} /\ 7 \in S
    BY <2>7
  <2>8. CASE S \cap 1..7 = {} /\ 8 \in S
    BY <2>8
  <2>9. CASE S \cap 1..8 = {} /\ 9 \in S
    BY <2>9
  <2>10. CASE S \cap 1..9 = {} /\ 10 \in S
    BY <2>10
  <2>11. CASE S \cap 1..10 = {} /\ 11 \in S
    BY <2>11
  <2>12. S \cap 1..11 # {}
    OBVIOUS
  <2> QED BY <2>1, <2>2, <2>3, <2>4, <2>5, <2>6, <2>7, <2>8, <2>9, <2>10, <2>11, <2>12
<1> QED BY <1>1 DEF Min

\* Which types the steps find.
LEMMA StepKinds ==
  ASSUME case \in Cases
  PROVE  /\ Finds(6) => case.kind = "ValidatingWebhook"
         /\ Finds(7) => case.kind \in {"ClusterRoleBinding", "RoleBinding"}
         /\ Finds(8) => case.kind = "FinalizerBlock"
         /\ Finds(9) => case.kind \in {"ConfigMapDrift", "SecretDrift"}
         /\ Finds(10) => case.kind \in {"FieldMutation", "PathMutation", "OwnerRefOrphan"}
         /\ Is({"PDBBlock", "QuotaExhaustion"}) => \A n \in 1..11 : ~Finds(n)
<1>1. case.res \in ResourcesOf(case.kind)
  BY ResourcesAssumption
<1>2. Finds(6) => case.res = "ValidatingWebhookConfiguration"
  BY DEF Finds
<1>3. Finds(7) => case.res \in {"ClusterRoleBinding", "RoleBinding"}
  BY DEF Finds
<1>4. case.res = "ValidatingWebhookConfiguration" => case.kind = "ValidatingWebhook"
  BY <1>1 DEF ResourcesOf, Restorable, Listed
<1>5. case.res \in {"ClusterRoleBinding", "RoleBinding"} =>
        case.kind \in {"ClusterRoleBinding", "RoleBinding"}
  BY <1>1 DEF ResourcesOf, Restorable, Listed
<1>6. /\ Finds(8) => case.kind = "FinalizerBlock"
      /\ Finds(9) => case.kind \in {"ConfigMapDrift", "SecretDrift"}
      /\ Finds(10) => case.kind \in {"FieldMutation", "PathMutation", "OwnerRefOrphan"}
  BY DEF Finds, Is
<1>7. ASSUME Is({"PDBBlock", "QuotaExhaustion"}), NEW n \in 1..11, Finds(n)
      PROVE  FALSE
  <2>1. case.res \notin {"NetworkPolicy", "Lease", "ClusterRole", "RoleBinding", "ConfigMap",
                        "ValidatingWebhookConfiguration", "ClusterRoleBinding"}
    BY <1>1, <1>7 DEF ResourcesOf, Is, Listed, Restorable
  <2>2. n \in {8, 9, 10} \/ (n = 11 /\ Is({"LeaderElection", "NamespaceDeletion"}))
    <3>1. CASE n = 1
      BY <2>1, <1>7, <3>1 DEF Finds
    <3>2. CASE n = 2
      BY <2>1, <1>7, <3>2 DEF Finds
    <3>3. CASE n = 3
      BY <2>1, <1>7, <3>3 DEF Finds
    <3>4. CASE n = 4
      BY <2>1, <1>7, <3>4 DEF Finds
    <3>5. CASE n = 5
      BY <2>1, <1>7, <3>5 DEF Finds
    <3>6. CASE n = 6
      BY <2>1, <1>7, <3>6 DEF Finds
    <3>7. CASE n = 7
      BY <2>1, <1>7, <3>7 DEF Finds
    <3>8. CASE n = 11
      BY <2>1, <1>7, <3>8 DEF Finds
    <3> QED BY <3>1, <3>2, <3>3, <3>4, <3>5, <3>6, <3>7, <3>8
  <2> QED BY <2>2, <1>6, <1>7 DEF Is
<1> QED BY <1>2, <1>3, <1>4, <1>5, <1>6, <1>7

LEMMA FindsKept ==
  ASSUME case' = case, NEW n, Finds(n), NEW m, m = n
  PROVE  Finds(m)'
  BY DEF Finds, Is

LEMMA AdvanceStep ==
  ASSUME NEW STATE calm, calm \in BOOLEAN, sweep \in Sweeps, Advance(calm), case' = case,
         Fit(case.kind, legit, Gone)
  PROVE  SweepInv'
<1> DEFINE left == {n \in sweep.step + 1..11 : Finds(n)}
<1>1. sweep.step \in 0..11
  BY DEF Sweeps
<1>2. left \subseteq 1..11 /\ (left # {} => Min(left) \in left)
  <2>1. left \subseteq 1..11
    BY <1>1
  <2> HIDE DEF left
  <2> QED BY <2>1, LeastOf
<1>3. Gone \in Objects
  BY GoneFacts
<1>4. CASE left = {}
  <2>1. sweep' = [step |-> 0, at |-> "idle", seen |-> Gone, stale |-> FALSE, calm |-> calm]
    BY <1>4 DEF Advance, Rest
  <2>2. sweep' \in Sweeps /\ sweep'.step = 0 /\ sweep'.at = "idle" /\ sweep'.seen = Gone
    BY <2>1, <1>3 DEF Sweeps
  <2> QED BY <2>2, GoneFits DEF SweepInv, SweepKnown
<1>5. CASE left # {}
  <2>1. sweep' = [step |-> Min(left), at |-> "list", seen |-> Gone, stale |-> FALSE, calm |-> calm]
    BY <1>5 DEF Advance, Rest
  <2>2. Min(left) \in 1..11 /\ Finds(Min(left))
    BY <1>2, <1>5
  <2> HIDE DEF left
  <2>3. /\ sweep' \in Sweeps /\ sweep'.step = Min(left) /\ sweep'.at = "list"
        /\ sweep'.seen = Gone
    BY <2>1, <2>2, <1>3 DEF Sweeps
  <2>4. Finds(sweep.step)'
    BY <2>2, <2>3, FindsKept
  <2> QED BY <2>2, <2>3, <2>4, GoneFits DEF SweepInv, SweepKnown
<1> QED BY <1>4, <1>5

LEMMA ListStep ==
  ASSUME CleanInv, NEW n \in 1..11, NEW STATE match, List(n, match),
         match => obj.here /\ (n \in 6..10 => obj.mark \notin {NoMark, Corrupt})
  PROVE  Promised
<1>1. /\ sweep.step = n /\ sweep.at = "list"
      /\ UNCHANGED <<case, obj, side, parts, call, closure, legit, taken, gaps, edits>>
  BY DEF List, history
<1>2. /\ OpInv /\ sweep \in Sweeps /\ sweep.calm \in BOOLEAN /\ Finds(n) /\ case \in Cases
  BY <1>1, Basics DEF CleanInv, SweepInv, SweepKnown, Sweeps, OpInv
<1>3. OpInv' /\ Back /\ Undone /\ ForeignTargetKept /\ ForeignBackupKept
  <2>1. edits \in Nat /\ legit \subseteq Values /\ call \in Calls /\ Fit(case.kind, legit, obj)
        /\ taken \in BOOLEAN /\ (taken => ~obj.here \/ obj.term)
    BY <1>2, Basics DEF OpInv, Base, Types, TypeOK, Fits, SideKnown
  <2>2. gaps = {} => Sound(case.kind, legit, obj) /\ SideFits(obj)
    BY <1>2 DEF OpInv, SureBase, SideSound
  <2>3. gaps' = {} => SideFits(obj)'
    BY <1>1, <2>2 DEF SideFits, Foreign, Is
  <2>4. OpInv'
    BY <1>1, <1>2, <2>1, <2>2, <2>3, ChangeKeeps
  <2> QED BY <1>1, <2>4 DEF Back, Undone, ForeignTargetKept, ForeignBackupKept
<1>4. SweepInv'
  <2>1. CASE Advance(sweep.calm) \/ Advance(FALSE)
    BY <2>1, <1>1, <1>2, GoneFits, AdvanceStep
  <2>2. CASE match /\ sweep' = [sweep EXCEPT !.at = "write", !.seen = obj, !.stale = FALSE]
    <3>1. obj \in Objects /\ Fit(case.kind, legit, obj)
      BY <1>2, Basics DEF OpInv, Base, Fits
    <3>2. gaps = {} => Sound(case.kind, legit, obj)
      BY <1>2 DEF OpInv, SureBase
    <3>3. /\ sweep' \in Sweeps /\ sweep'.step = n /\ sweep'.at = "write" /\ sweep'.seen = obj
      BY <2>2, <3>1, <1>1, <1>2 DEF Sweeps
    <3>4. Finds(sweep.step)'
      BY <1>1, <1>2, <3>3, FindsKept
    <3> QED BY <2>2, <3>1, <3>2, <3>3, <3>4, <1>1 DEF SweepInv, SweepKnown
  <2> QED BY <2>1, <2>2 DEF List
<1> QED BY <1>1, <1>3, <1>4 DEF Promised, CleanInv, Grows

\* A write of the sweep, whoever else is at work.
Puts(o) ==
    /\ obj' \in {obj, o}
    /\ gaps' = IF obj' = obj THEN gaps ELSE gaps \cup Strips(o) \cup Overlaps
    /\ Touched(obj') /\ UNCHANGED <<side, taken>> /\ Quiet
\* What it may put in place of the target.
MayPut(o) ==
    /\ o \in Objects /\ Fit(case.kind, legit, o) /\ (Is(Deleting) => ~o.here)
    /\ gaps = {} /\ Strips(o) = {} => Sound(case.kind, legit, o) /\ SideFits(o)

LEMMA SweepWrites ==
  ASSUME CleanInv, sweep.step \in 1..11, NEW STATE o, Puts(o), obj' # obj => MayPut(o), SweepInv'
  PROVE  Promised
<1> USE DEF Puts, MayPut
<1>1. OpInv /\ Base /\ UNCHANGED <<case, side, parts, closure, legit, edits, taken>>
  BY DEF CleanInv, OpInv, Quiet
<1>2. /\ call' \in Calls /\ call'.op = call.op /\ call'.at = call.at /\ call'.part = call.part
      /\ call'.got = call.got /\ call'.copy = call.copy /\ call'.failed = call.failed
      /\ (obj' = obj /\ call'.stale = call.stale) \/ call.at = "idle" \/ call'.stale
  <2>1. call' = call \/ call' = [call EXCEPT !.stale = TRUE]
    BY DEF Touched
  <2>2. call' # call \/ call = Idle \/ obj' = obj \/ call' = [call EXCEPT !.stale = TRUE]
    BY DEF Touched
  <2> QED BY <2>1, <2>2, <1>1, StaleFacts
<1>3. gaps \subseteq gaps' /\ gaps' \subseteq gaps \cup {"relabelled", "stripped", "overlap"}
  BY DEF Strips, Overlaps
<1>4. edits \in Nat /\ legit \subseteq Values /\ Fit(case.kind, legit, obj)
      /\ taken \in BOOLEAN /\ (taken => Is(Deleting) /\ (~obj.here \/ obj.term))
  BY <1>1, Basics DEF Base, Types, TypeOK, Fits, SideKnown
<1>5. Fit(case.kind, legit, obj')
  BY <1>4
<1>6. ASSUME gaps' = {}
      PROVE  Sound(case.kind, legit, obj') /\ SideFits(obj') /\ (obj' = obj \/ call.at = "idle")
  <2>1. gaps = {} /\ Sound(case.kind, legit, obj) /\ SideFits(obj)
    BY <1>1, <1>3, <1>6 DEF OpInv, SureBase, SideSound
  <2>2. obj' # obj => Strips(o) = {} /\ Overlaps = {}
    BY <1>6
  <2>3. Overlaps = {} => call.at = "idle"
    BY IdleFacts DEF Overlaps
  <2> QED BY <2>1, <2>2, <2>3
<1>7. gaps' = {} => SideFits(obj)'
  BY <1>1, <1>6 DEF SideFits, Foreign, Is
<1>8. OpInv'
  BY <1>1, <1>2, <1>3, <1>4, <1>5, <1>6, <1>7, ChangeKeeps
<1>9. ForeignTargetKept
  BY <1>1, Basics, StepKinds DEF ForeignTargetKept, CleanInv, SweepInv, SweepKnown
<1> QED BY <1>1, <1>2, <1>3, <1>8, <1>9
        DEF Promised, CleanInv, Grows, Back, Undone, ForeignBackupKept

LEMMA PutStep ==
  ASSUME CleanInv, NEW n \in 1..11, NEW STATE accepted, NEW STATE o, Put(n, accepted, o),
         sweep.step = n /\ sweep.at = "write" /\ accepted => MayPut(o)
  PROVE  Promised
<1>1. sweep.step = n /\ sweep.at = "write" /\ (obj' # obj => accepted) /\ Puts(o)
  BY DEF Put, Puts
<1>2. sweep \in Sweeps /\ sweep.calm \in BOOLEAN /\ case' = case /\ Fit(case.kind, legit, Gone)
  BY <1>1, GoneFits DEF CleanInv, SweepInv, SweepKnown, Sweeps, Puts, Quiet
<1>3. SweepInv'
  <2>1. CASE Advance(sweep.calm)
    BY <2>1, <1>2, AdvanceStep
  <2>2. CASE Advance(FALSE)
    BY <2>2, <1>2, AdvanceStep
  <2> QED BY <2>1, <2>2 DEF Put
<1> QED BY <1>1, <1>3, SweepWrites

LEMMA DeleteMatchingStep ==
  ASSUME CleanInv, NEW n \in {1, 2, 3, 4, 11}, DeleteMatchingResources(n)
  PROVE  Promised
<1> DEFINE o == IF obj.val.t = "map" /\ Is({"FinalizerBlock"}) THEN [obj EXCEPT !.term = TRUE]
                ELSE Gone
<1>1. n \in 1..11 /\ n \notin 6..10
  OBVIOUS
<1>2. OpInv /\ obj \in Objects /\ (obj.here => Fit(case.kind, legit, obj))
      /\ (gaps = {} => Sound(case.kind, legit, obj))
  BY Basics DEF CleanInv, OpInv, Base, Fits, SureBase
<1>3. MayPut(o)
  <2>1. CASE o = Gone
    BY <2>1, GoneFacts, GoneFits DEF MayPut
  <2>2. CASE Is({"FinalizerBlock"}) /\ o = [obj EXCEPT !.term = TRUE]
    <3>1. /\ o \in Objects /\ o.here = obj.here /\ o.val = obj.val /\ o.mark = obj.mark
          /\ o.label = obj.label /\ o.selected = obj.selected
      BY <2>2, <1>2 DEF Objects
    <3>2. Fit(case.kind, legit, o) /\ (gaps = {} => Sound(case.kind, legit, o))
      BY <3>1, <1>2 DEF Fit, Guard, Sound
    <3>3. ~Is(Deleting) /\ SideFits(o)
      BY <2>2 DEF Is, Deleting, SideFits
    <3> QED BY <3>1, <3>2, <3>3 DEF MayPut
  <2> QED BY <2>1, <2>2
<1> HIDE DEF o
<1>4. List(n, obj.here /\ Ours(obj)) \/ Put(n, obj.here, o)
  BY DEF DeleteMatchingResources, o
<1>5. CASE List(n, obj.here /\ Ours(obj))
  BY <1>1, <1>5, ListStep
<1>6. CASE Put(n, obj.here, o)
  BY <1>1, <1>3, <1>6, PutStep
<1> QED BY <1>4, <1>5, <1>6

LEMMA CleanTTLStep ==
  ASSUME CleanInv, CleanTTLExpired
  PROVE  Promised
<1>1. 5 \in 1..11 /\ 5 \notin 6..10
  OBVIOUS
<1>2. ASSUME NEW expired \in BOOLEAN, List(5, expired /\ obj.here /\ obj.val = case.fault)
      PROVE  Promised
  BY <1>1, <1>2, ListStep
<1>3. MayPut(Gone)
  BY GoneFacts, GoneFits DEF MayPut
<1>4. CASE Put(5, obj.here, Gone)
  BY <1>1, <1>3, <1>4, PutStep
<1> QED BY <1>2, <1>4 DEF CleanTTLExpired

\* What a sweep knows of the object that it has listed.
LEMMA SeenFacts ==
  ASSUME CleanInv, sweep.step \in 6..10, sweep.at = "write"
  PROVE  /\ seen \in Objects /\ seen.here /\ Fit(case.kind, legit, seen)
         /\ seen.mark \in Marks(case.kind) /\ seen.mark \notin {NoMark, Corrupt}
         /\ gaps = {} => Sound(case.kind, legit, seen)
         /\ Fresh => obj = seen
         /\ Finds(sweep.step) /\ case \in Cases /\ Is(InPlace) /\ ~Is(Deleting)
<1>1. /\ seen.here /\ Fit(case.kind, legit, seen) /\ seen.mark \notin {NoMark, Corrupt}
      /\ gaps = {} => Sound(case.kind, legit, seen)
      /\ Fresh => obj = seen
      /\ Finds(sweep.step) /\ case \in Cases
  BY Basics DEF CleanInv, OpInv, SweepInv, SweepKnown, Fresh, seen
<1>2. seen \in Objects /\ seen.mark \in Marks(case.kind)
  BY <1>1 DEF Fit
<1>3. sweep.step \in {6, 7, 8, 9, 10}
  OBVIOUS
<1>4. Is(InPlace) /\ ~Is(Deleting)
  BY <1>1, <1>3, StepKinds DEF Is, InPlace, Deleting
<1> QED BY <1>1, <1>2, <1>4

\* The types that the sweep restores from the annotation.
LEMMA PutBack ==
  ASSUME CleanInv, NEW n \in {6, 7, 9},
         case.kind \in {"ValidatingWebhook", "ClusterRoleBinding", "RoleBinding", "ConfigMapDrift"},
         Put(n, Fresh, RemoveChaosMetadata(With(seen, seen.mark)))
  PROVE  Promised
<1> DEFINE o == RemoveChaosMetadata(With(seen, seen.mark))
<1>1. n \in 1..11 /\ n \in 6..10
  OBVIOUS
<1>2. ASSUME sweep.step = n, sweep.at = "write", Fresh PROVE MayPut(o)
  <2>1. /\ seen \in Objects /\ Fit(case.kind, legit, seen) /\ seen.here
        /\ seen.mark \in Marks(case.kind) /\ seen.mark \notin {NoMark, Corrupt}
        /\ gaps = {} => Sound(case.kind, legit, seen)
        /\ Is(InPlace) /\ ~Is(Deleting)
    BY <1>1, <1>2, SeenFacts
  <2>2. case.kind \in Valued \ {"ClientFault"} /\ case.kind \notin Diffed
        /\ ~Is({"SecretDrift"}) /\ case.kind # "MutatingWebhook"
    BY DEF Valued, InPlace, Diffed, Is
  <2>3. seen.mark \in Values
    BY <2>1, <2>2, MarkValues
  <2>4. /\ o \in Objects /\ o.val = seen.mark /\ o.mark = NoMark /\ o.label # "chaos"
        /\ o.selected = seen.selected
    BY <2>1, <2>3, RestoredFacts
  <2> HIDE DEF o
  <2>5. case.kind = "ValidatingWebhook" => GenuineIn(legit, seen.mark)
    BY <2>1, <2>3 DEF Fit, Guard, Webhooks
  <2>6. Fit(case.kind, legit, o)
    BY <2>1, <2>4, <2>5, MarkValues, ValueFacts DEF Fit, Guard, Webhooks
  <2>7. gaps = {} => Sound(case.kind, legit, o)
    BY <2>1, <2>2, <2>3, <2>4, ValueFacts DEF Sound, Whole
  <2>8. SideFits(o)
    BY <2>1, <2>2 DEF SideFits
  <2> QED BY <2>1, <2>4, <2>6, <2>7, <2>8 DEF MayPut
<1>3. Put(n, Fresh, o)
  OBVIOUS
<1> HIDE DEF o
<1> QED BY <1>1, <1>2, <1>3, PutStep

LEMMA ListMarked ==
  ASSUME CleanInv, NEW n \in 6..10, NEW STATE more, List(n, Marked /\ more)
  PROVE  Promised
<1>1. n \in 1..11
  OBVIOUS
<1>2. Marked /\ more => obj.here /\ obj.mark \notin {NoMark, Corrupt}
  BY DEF Marked, UnwrapRollbackData
<1> QED BY <1>1, <1>2, ListStep

LEMMA ListAllMarked ==
  ASSUME CleanInv, NEW n \in 6..10, List(n, Marked)
  PROVE  Promised
<1>1. n \in 1..11
  OBVIOUS
<1>2. Marked => obj.here /\ obj.mark \notin {NoMark, Corrupt}
  BY DEF Marked, UnwrapRollbackData
<1> QED BY <1>1, <1>2, ListStep

LEMMA CleanFinalizerStep ==
  ASSUME CleanInv, CleanFinalizerFromResource
  PROVE  Promised
<1> DEFINE o == WithoutFinalizer(seen)
<1>1. 8 \in 1..11 /\ 8 \in 6..10
  OBVIOUS
<1>2. ASSUME sweep.step = 8, sweep.at = "write" PROVE MayPut(o)
  <2>1. /\ seen \in Objects /\ Fit(case.kind, legit, seen) /\ seen.here /\ ~Is(Deleting)
        /\ Finds(8) /\ case \in Cases
    BY <1>1, <1>2, SeenFacts
  <2>2. case.kind = "FinalizerBlock"
    BY <2>1, StepKinds
  <2>3. legit \subseteq Values
    BY Basics DEF CleanInv, OpInv
  <2>4. Fit("FinalizerBlock", legit, o) /\ Clean("FinalizerBlock", legit, o)
    BY <2>1, <2>2, <2>3, WithoutFinalizerFacts
  <2> HIDE DEF o
  <2>5. Sound("FinalizerBlock", legit, o)
    BY <2>4 DEF Sound, Clean, Valued, Diffed, Webhooks
  <2>6. SideFits(o)
    BY <2>2 DEF SideFits, Is, Deleting
  <2> QED BY <2>1, <2>2, <2>4, <2>5, <2>6 DEF MayPut, Fit
<1>3. Put(8, Fresh, o)
  BY DEF CleanFinalizerFromResource
<1> HIDE DEF o
<1> QED BY <1>1, <1>2, <1>3, PutStep

\* The sweep deletes a rollback Secret or a backup of the framework's own.
LEMMA DropSide ==
  ASSUME CleanInv, sweep.step \in 1..11, side' \in {side, NoBackup}, NEW STATE more,
         more \subseteq {"stripped"},
         gaps' = IF side' = side THEN gaps ELSE gaps \cup Overlaps \cup more,
         UNCHANGED <<obj, call, taken>>, Quiet, SweepInv', ~Foreign,
         side' # side /\ gaps' = {} => ~taken /\ (Is({"SecretDrift"}) => obj.mark # Ref)
  PROVE  Promised
<1>1. OpInv /\ Base /\ Knows /\ UNCHANGED <<case, parts, closure, legit, edits, obj, call, taken>>
  BY DEF CleanInv, OpInv, Quiet
<1>2. gaps \subseteq gaps' /\ gaps' \subseteq gaps \cup {"overlap", "stripped"}
  BY DEF Overlaps
<1>3. ~NoBackup.here
  BY DEF NoBackup
<1>4. Base'
  <2>1. call' \in Calls /\ Held
    BY <1>1, Basics DEF Held, Kept
  <2> QED BY <2>1, <1>1, <1>2, SideKeeps
<1>5. ~Foreign'
  BY <1>3 DEF Foreign
<1>6. Knows'
  BY <1>1, <1>5 DEF Knows, KnowsInPlace, KnowsDeleting, KnowsParts, Is, Ours
<1>7. ASSUME gaps' = {} PROVE SureBase' /\ Relies'
  <2>1. gaps = {} /\ SureBase /\ Relies
    BY <1>1, <1>2, <1>7 DEF OpInv
  <2>2. side' # side => call.at = "idle" /\ call.op = "none"
    BY <1>7, IdleFacts DEF Overlaps
  <2>3. SideSound'
    <3>1. CASE side' = side
      BY <3>1, <1>1, <2>1 DEF SureBase, SideSound, SideFits, OwnBackup, Foreign, Is
    <3>2. CASE side' # side
      <4>1. ~side'.here /\ ~taken' /\ (Is({"SecretDrift"}) => obj.mark # Ref)
        BY <3>2, <1>1, <1>3, <1>7
      <4> QED BY <4>1, <1>1, <2>1 DEF SureBase, SideSound, SideFits, OwnBackup, Foreign, Is
    <3> QED BY <3>1, <3>2
  <2>4. SureBase'
    BY <2>1, <2>3, <1>1 DEF SureBase, ClosureSound, Is
  <2>5. Relies'
    <3>1. CASE side' = side
      BY <3>1, <1>1, <2>1 DEF Relies, ReliesInPlace, ReliesDeleting, OwnBackup, Foreign, Is
    <3>2. CASE side' # side
      BY <3>2, <2>2, <1>1 DEF Relies, ReliesInPlace, ReliesDeleting, Undo
    <3> QED BY <3>1, <3>2
  <2> QED BY <2>4, <2>5
<1>8. OpInv'
  BY <1>4, <1>6, <1>7 DEF OpInv
<1> QED BY <1>1, <1>2, <1>8
        DEF Promised, CleanInv, Grows, Back, Undone, ForeignTargetKept, ForeignBackupKept, Foreign

\* A write that ends a step is one of the step that the sweep is at.
LEMMA PutFinds ==
  ASSUME CleanInv, NEW n \in 1..11, NEW STATE accepted, NEW STATE o, Put(n, accepted, o)
  PROVE  sweep.step = n /\ sweep.at = "write" /\ Finds(n) /\ case \in Cases
<1>1. sweep.step = n /\ sweep.at = "write" /\ Finds(sweep.step) /\ case \in Cases
  BY Basics DEF Put, CleanInv, OpInv, SweepInv, SweepKnown
<1> QED BY <1>1

LEMMA CleanCopiedStep ==
  ASSUME CleanInv, CleanWebhookConfigurations \/ CleanRBACBindings
  PROVE  Promised
<1> DEFINE o == RemoveChaosMetadata(With(seen, seen.mark))
<1>1. 6 \in 1..11 /\ 7 \in 1..11 /\ 6 \in 6..10 /\ 7 \in 6..10
  OBVIOUS
<1>2. List(6, Marked) \/ List(7, Marked) \/ Put(6, Fresh, o) \/ Put(7, Fresh, o)
  BY DEF CleanWebhookConfigurations, CleanRBACBindings
<1>3. CASE List(6, Marked) \/ List(7, Marked)
  BY <1>1, <1>3, ListAllMarked
<1>4. CASE Put(6, Fresh, o)
  <2>1. case.kind = "ValidatingWebhook"
    BY <1>1, <1>4, PutFinds, StepKinds
  <2> QED BY <2>1, <1>4, PutBack
<1>5. CASE Put(7, Fresh, o)
  <2>1. case.kind \in {"ClusterRoleBinding", "RoleBinding"}
    BY <1>1, <1>5, PutFinds, StepKinds
  <2> QED BY <2>1, <1>5, PutBack
<1> QED BY <1>2, <1>3, <1>4, <1>5

\* The original of a Secret comes from its rollback Secret.
LEMMA SecretPutBack ==
  ASSUME CleanInv, Is({"SecretDrift"}), sweep.step = 9, sweep.at = "write", Fresh,
         NEW STATE v, v = IF side.val = Absent THEN Scalar("c") ELSE side.val
  PROVE  MayPut(RemoveChaosMetadata(With(seen, v)))
<1> DEFINE o == RemoveChaosMetadata(With(seen, v))
<1>1. 9 \in 6..10
  OBVIOUS
<1>2. /\ seen \in Objects /\ Fit(case.kind, legit, seen) /\ seen.here
      /\ seen.mark \in Marks(case.kind) /\ seen.mark \notin {NoMark, Corrupt}
      /\ obj = seen /\ Is(InPlace) /\ ~Is(Deleting) /\ case.kind = "SecretDrift"
  BY <1>1, SeenFacts DEF Is
<1>3. v \in Values
  <2>1. side.val \in Values
    BY Basics DEF CleanInv, OpInv
  <2>2. Scalar("c") \in Values
    BY DEF Scalar, Values, Atoms
  <2> QED BY <2>1, <2>2
<1>4. /\ o \in Objects /\ o.val = v /\ o.mark = NoMark /\ o.label = "none" /\ o.here
      /\ o.selected = seen.selected
  BY <1>2, <1>3, RestoredFacts
<1> HIDE DEF o
<1>5. Fit(case.kind, legit, o)
  BY <1>2, <1>4, MarkValues DEF Fit, Guard, Webhooks
<1>6. ASSUME Strips(o) = {} PROVE GenuineIn(legit, o.val)
  <2>1. obj.mark = Ref
    BY <1>2, MarkValues
  <2>2. Genuine(o.val)
    BY <1>2, <1>4, <1>6, <2>1, ValueFacts DEF Strips
  <2> QED BY <2>2, GenuineIs
<1>7. Strips(o) = {} => Sound(case.kind, legit, o)
  BY <1>2, <1>4, <1>6, ValueFacts DEF Sound, Whole, Diffed, Webhooks, Valued
<1>8. SideFits(o)
  BY <1>2, <1>4, ValueFacts DEF SideFits
<1>9. MayPut(o)
  BY <1>2, <1>4, <1>5, <1>7, <1>8 DEF MayPut
<1> QED BY <1>9 DEF o

LEMMA SecretDriftWrite ==
  ASSUME CleanInv, Is({"SecretDrift"}), sweep.step = 9, sweep.at = "write", NEW STATE o,
         Fresh => MayPut(o),
         \/ Fresh /\ obj' = o /\ sweep' = [sweep EXCEPT !.at = "drop"]
         \/ ~Fresh /\ obj' = obj /\ Advance(FALSE)
         \/ Fresh /\ Advance(FALSE) /\ obj' \in {obj, o},
         gaps' = IF obj' = obj THEN gaps ELSE gaps \cup Strips(obj') \cup Overlaps,
         Touched(obj'), UNCHANGED <<side, taken>>, Quiet
  PROVE  Promised
<1>1. Puts(o) /\ (obj' # obj => MayPut(o)) /\ case' = case
  <2>1. obj' # obj => obj' = o
    OBVIOUS
  <2>2. gaps' = IF obj' = obj THEN gaps ELSE gaps \cup Strips(o) \cup Overlaps
    BY <2>1
  <2> QED BY <2>2 DEF Puts, Quiet
<1>2. sweep \in Sweeps /\ Fit(case.kind, legit, Gone) /\ sweep.step \in 1..11
  BY GoneFits DEF CleanInv, SweepInv, SweepKnown
<1>3. SweepInv'
  <2>1. CASE Advance(FALSE)
    BY <1>1, <1>2, <2>1, AdvanceStep
  <2>2. CASE sweep' = [sweep EXCEPT !.at = "drop"]
    <3>1. /\ sweep' \in Sweeps /\ sweep'.step = 9 /\ sweep'.at = "drop" /\ sweep'.seen = sweep.seen
      BY <1>2, <2>2 DEF Sweeps
    <3>2. Finds(sweep.step)'
      <4>1. Finds(sweep.step)
        BY DEF CleanInv, SweepInv, SweepKnown
      <4> QED BY <4>1, <3>1, <1>1, FindsKept
    <3>3. SweepKnown'
      BY <3>1, <3>2, <1>1 DEF SweepKnown, Is
    <3>4. gaps \subseteq gaps' /\ legit' = legit
      BY DEF Quiet
    <3> QED BY <3>1, <3>3, <3>4, <1>1 DEF SweepInv, CleanInv
  <2> QED BY <2>1, <2>2
<1> QED BY <1>1, <1>2, <1>3, SweepWrites

LEMMA SecretDriftDrop ==
  ASSUME CleanInv, sweep.step = 9, sweep.at = "drop",
         \/ side' = NoBackup /\ Advance(sweep.calm)
         \/ side' \in {side, NoBackup} /\ Advance(FALSE),
         gaps' = IF side' = side THEN gaps ELSE gaps \cup Overlaps,
         UNCHANGED <<obj, call, taken>>, Quiet
  PROVE  Promised
<1>1. /\ Is({"SecretDrift"}) /\ sweep \in Sweeps /\ sweep.calm \in BOOLEAN
      /\ Fit(case.kind, legit, Gone) /\ case' = case
  BY GoneFits DEF CleanInv, SweepInv, SweepKnown, Sweeps, Quiet
<1>2. ~Is(Deleting)
  BY <1>1 DEF Is, Deleting
<1>3. ~Foreign /\ ~taken
  BY <1>2 DEF CleanInv, OpInv, Base, SideKnown
<1>4. SweepInv'
  <2>1. CASE Advance(sweep.calm)
    BY <1>1, <2>1, AdvanceStep
  <2>2. CASE Advance(FALSE)
    BY <1>1, <2>2, AdvanceStep
  <2> QED BY <2>1, <2>2
<1>5. side' # side /\ gaps' = {} => ~taken /\ (Is({"SecretDrift"}) => obj.mark # Ref)
  BY <1>3 DEF Overlaps
<1> DEFINE more == {}
<1>6. gaps' = (IF side' = side THEN gaps ELSE gaps \cup Overlaps \cup more)
      /\ more \subseteq {"stripped"}
  OBVIOUS
<1>7. side' \in {side, NoBackup}
  OBVIOUS
<1>8. sweep.step \in 1..11
  OBVIOUS
<1> HIDE DEF more
<1> QED BY <1>3, <1>4, <1>5, <1>6, <1>7, <1>8, DropSide

LEMMA CleanConfigDriftStep ==
  ASSUME CleanInv, CleanConfigDrift
  PROVE  Promised
<1> DEFINE more == Is({"SecretDrift"}) => side.here
           copied == RemoveChaosMetadata(With(seen, seen.mark))
           v == IF side.val = Absent THEN Scalar("c") ELSE side.val
           o == RemoveChaosMetadata(With(seen, v))
           write == /\ Is({"SecretDrift"}) /\ sweep.step = 9 /\ sweep.at = "write"
                    /\ \/ Fresh /\ obj' = o /\ sweep' = [sweep EXCEPT !.at = "drop"]
                       \/ ~Fresh /\ obj' = obj /\ Advance(FALSE)
                       \/ Fresh /\ Advance(FALSE) /\ obj' \in {obj, o}
                    /\ gaps' = IF obj' = obj THEN gaps ELSE gaps \cup Strips(obj') \cup Overlaps
                    /\ Touched(obj') /\ UNCHANGED <<side, taken>> /\ Quiet
           drop == /\ sweep.step = 9 /\ sweep.at = "drop"
                   /\ \/ side' = NoBackup /\ Advance(sweep.calm)
                      \/ side' \in {side, NoBackup} /\ Advance(FALSE)
                   /\ gaps' = IF side' = side THEN gaps ELSE gaps \cup Overlaps
                   /\ UNCHANGED <<obj, call, taken>> /\ Quiet
<1>1. List(9, Marked /\ more) \/ (Is({"ConfigMapDrift"}) /\ Put(9, Fresh, copied)) \/ write \/ drop
  BY DEF CleanConfigDrift
<1>2. 9 \in 6..10
  OBVIOUS
<1>3. CASE List(9, Marked /\ more)
  <2> HIDE DEF more
  <2> QED BY <1>2, <1>3, ListMarked
<1>4. CASE Is({"ConfigMapDrift"}) /\ Put(9, Fresh, copied)
  BY <1>4, PutBack DEF Is
<1>5. CASE write
  <2>1. Is({"SecretDrift"}) /\ sweep.step = 9 /\ sweep.at = "write"
    BY <1>5
  <2>2. Fresh => MayPut(o)
    BY <2>1, SecretPutBack
  <2> HIDE DEF o
  <2> QED BY <1>5, <2>1, <2>2, SecretDriftWrite
<1>6. CASE drop
  BY <1>6, SecretDriftDrop
<1> QED BY <1>1, <1>3, <1>4, <1>5, <1>6

\* What the sweep makes of a CRD mutation or an orphaned object: it restores
\* only the former, and strips either of its annotation.
LEMMA CRDMutationPut ==
  ASSUME CleanInv, sweep.step = 10, sweep.at = "write", obj.here
  PROVE  MayPut(RemoveChaosMetadata(
             IF Is({"FieldMutation"}) THEN With(obj, MergeValue(obj.val, seen.mark)) ELSE obj))
<1> DEFINE v == IF Is({"FieldMutation"}) THEN MergeValue(obj.val, seen.mark) ELSE obj.val
           o == RemoveChaosMetadata(With(obj, v))
<1>1. 10 \in 6..10 /\ OpInv /\ Base
  BY DEF CleanInv, OpInv
<1>2. /\ seen \in Objects /\ Fit(case.kind, legit, seen) /\ seen.here
      /\ seen.mark \in Marks(case.kind) /\ seen.mark \notin {NoMark, Corrupt}
      /\ gaps = {} => Sound(case.kind, legit, seen)
      /\ Finds(10) /\ case \in Cases /\ Is(InPlace) /\ ~Is(Deleting)
  BY <1>1, SeenFacts
<1>3. case.kind \in {"FieldMutation", "PathMutation", "OwnerRefOrphan"}
  BY <1>2, StepKinds
<1>4. case.kind \in Valued \ {"ClientFault"} /\ case.kind \notin Diffed /\ case.kind \notin Webhooks
      /\ ~Is({"SecretDrift"}) /\ case.kind \notin {"FinalizerBlock", "LabelDelete"}
  BY <1>3 DEF Valued, InPlace, Diffed, Webhooks, Is
<1>5. seen.mark \in Values /\ obj \in Objects /\ obj.val \in Values /\ Fit(case.kind, legit, obj)
  <2>1. seen.mark \in Values
    BY <1>2, <1>4, MarkValues
  <2>2. obj \in Objects /\ Fit(case.kind, legit, obj)
    BY <1>1, Basics DEF Base, Fits
  <2>3. obj.val \in Values
    BY <2>2 DEF Objects
  <2> QED BY <2>1, <2>2, <2>3
<1>6. v \in Values
  BY <1>5, MergeFacts
<1>7. /\ o \in Objects /\ o.val = v /\ o.mark = NoMark /\ o.label = "none" /\ o.here = obj.here
      /\ o.selected = obj.selected
  BY <1>5, <1>6, RestoredFacts
<1>8. RemoveChaosMetadata(
          IF Is({"FieldMutation"}) THEN With(obj, MergeValue(obj.val, seen.mark)) ELSE obj) = o
  <2>1. With(obj, obj.val) = obj
    BY <1>5 DEF With, Objects
  <2> QED BY <2>1
<1> HIDE DEF o
<1>9. Fit(case.kind, legit, o)
  <2>1. NoMark \in Marks(case.kind) /\ NoMark \notin Values
    BY <1>2, MarkValues, ValueFacts
  <2>2. case.kind = "OwnerRefOrphan" => Owners(legit, o.val)
    BY <1>5, <1>7 DEF Fit, Guard, Is
  <2> QED BY <1>4, <1>7, <2>1, <2>2 DEF Fit, Guard
<1>10. ASSUME gaps = {}, Strips(o) = {} PROVE GenuineIn(legit, o.val)
  <2>1. Sound(case.kind, legit, obj) /\ Sound(case.kind, legit, seen)
    BY <1>1, <1>2, <1>10 DEF OpInv, SureBase
  <2>2. GenuineIn(legit, seen.mark)
    BY <1>2, <1>4, <1>5, <2>1 DEF Sound
  <2>3. CASE obj.mark \notin {NoMark, Created}
    <3>1. Genuine(o.val)
      BY <1>2, <1>7, <1>10, <2>3 DEF Strips
    <3> QED BY <3>1, GenuineIs
  <2>4. CASE obj.mark \in {NoMark, Created}
    <3>1. obj.mark \in Marks(case.kind)
      BY <1>5 DEF Fit
    <3>2. obj.mark = NoMark
      BY <1>2, <1>4, <2>4, <3>1, MarkValues, ValueFacts
    <3>3. GenuineIn(legit, obj.val)
      BY <1>2, <1>4, <2>1, <3>2 DEF Sound, Whole, Is
    <3> QED BY <1>5, <1>7, <2>2, <3>3, MergeGenuine
  <2> QED BY <2>3, <2>4
<1>11. gaps = {} /\ Strips(o) = {} => Sound(case.kind, legit, o)
  BY <1>4, <1>7, <1>10, ValueFacts DEF Sound, Whole
<1>12. SideFits(o)
  BY <1>2, <1>4 DEF SideFits
<1>13. MayPut(o)
  BY <1>2, <1>7, <1>9, <1>11, <1>12 DEF MayPut
<1> QED BY <1>8, <1>13

LEMMA CleanCRDMutationStep ==
  ASSUME CleanInv, CleanCRDMutations \/ CleanCRDMutationFromResource
  PROVE  Promised
<1> DEFINE o == RemoveChaosMetadata(
                    IF Is({"FieldMutation"}) THEN With(obj, MergeValue(obj.val, seen.mark))
                    ELSE obj)
<1>1. 10 \in 1..11 /\ 10 \in 6..10
  OBVIOUS
<1>2. sweep.step = 10 /\ sweep.at = "write" /\ obj.here => MayPut(o)
  BY CRDMutationPut
<1>3. List(10, Marked) \/ Put(10, obj.here, o)
  BY DEF CleanCRDMutations, CleanCRDMutationFromResource
<1> HIDE DEF o
<1>4. CASE List(10, Marked)
  BY <1>1, <1>4, ListAllMarked
<1>5. CASE Put(10, obj.here, o)
  BY <1>1, <1>2, <1>5, PutStep
<1> QED BY <1>3, <1>4, <1>5

LEMMA CleanResultConfigMapsStep ==
  ASSUME CleanInv, CleanResultConfigMaps
  PROVE  Promised
<1> DEFINE more == IF taken THEN {"stripped"} ELSE {}
           drop == /\ SideIsConfigMap /\ sweep.step = 11
                   /\ \/ side' = NoBackup /\ Advance(sweep.calm)
                      \/ side' \in {side, NoBackup} /\ Advance(FALSE)
                   /\ gaps' = IF side' = side THEN gaps
                              ELSE gaps \cup Overlaps \cup more
                   /\ UNCHANGED <<obj, call, taken>> /\ Quiet
<1>1. DeleteMatchingResources(11) \/ drop
  BY DEF CleanResultConfigMaps
<1>2. CASE DeleteMatchingResources(11)
  BY <1>2, DeleteMatchingStep
<1>3. CASE drop
  <2>1. Is({"LeaderElection", "NamespaceDeletion"}) /\ ~Foreign /\ ~Is({"SecretDrift"})
    BY <1>3 DEF SideIsConfigMap, Foreign, Is
  <2>2. /\ sweep \in Sweeps /\ sweep.calm \in BOOLEAN
        /\ Fit(case.kind, legit, Gone) /\ case' = case
    BY <1>3, GoneFits DEF CleanInv, SweepInv, SweepKnown, Sweeps, Quiet
  <2>3. SweepInv'
    <3>1. CASE Advance(sweep.calm)
      BY <2>2, <3>1, AdvanceStep
    <3>2. CASE Advance(FALSE)
      BY <2>2, <3>2, AdvanceStep
    <3> QED BY <1>3, <3>1, <3>2
  <2>4. side' # side /\ gaps' = {} => ~taken /\ (Is({"SecretDrift"}) => obj.mark # Ref)
    BY <1>3, <2>1
  <2>5. side' \in {side, NoBackup}
    BY <1>3
  <2>6. sweep.step \in 1..11
    BY <1>3
  <2>7. more \subseteq {"stripped"}
    OBVIOUS
  <2>8. gaps' = (IF side' = side THEN gaps ELSE gaps \cup Overlaps \cup more)
        /\ UNCHANGED <<obj, call, taken>> /\ Quiet
    BY <1>3
  <2> HIDE DEF more
  <2> QED BY <2>1, <2>3, <2>4, <2>5, <2>6, <2>7, <2>8, DropSide
<1> QED BY <1>1, <1>2, <1>3

LEMMA RunCleanStep ==
  ASSUME CleanInv, RunClean
  PROVE  Promised
<1>1. CASE CleanNetworkPolicies \/ CleanLeases \/ CleanClusterRoles \/ CleanRoleBindings
  BY <1>1, DeleteMatchingStep
     DEF CleanNetworkPolicies, CleanLeases, CleanClusterRoles, CleanRoleBindings
<1>2. CASE CleanTTLExpired
  BY <1>2, CleanTTLStep
<1>3. CASE CleanWebhookConfigurations \/ CleanRBACBindings
  BY <1>3, CleanCopiedStep
<1>4. CASE CleanOrphanedFinalizers
  <2>1. 8 \in 6..10
    OBVIOUS
  <2> QED BY <1>4, <2>1, ListAllMarked DEF CleanOrphanedFinalizers
<1>5. CASE CleanFinalizerFromResource
  BY <1>5, CleanFinalizerStep
<1>6. CASE CleanConfigDrift
  BY <1>6, CleanConfigDriftStep
<1>7. CASE CleanCRDMutations \/ CleanCRDMutationFromResource
  BY <1>7, CleanCRDMutationStep
<1>8. CASE CleanResultConfigMaps
  BY <1>8, CleanResultConfigMapsStep
<1> QED BY <1>1, <1>2, <1>3, <1>4, <1>5, <1>6, <1>7, <1>8 DEF RunClean

LEMMA StartSweepStep ==
  ASSUME CleanInv, StartSweep
  PROVE  Promised
<1> DEFINE calm == call = Idle /\ gaps = {}
<1>1. OpInv /\ UNCHANGED vars /\ Advance(calm) /\ calm \in BOOLEAN
  BY DEF StartSweep, CleanInv
<1> HIDE DEF calm
<1>2. sweep \in Sweeps /\ Fit(case.kind, legit, Gone)
  BY GoneFits DEF CleanInv, SweepInv, SweepKnown
<1>3. case' = case /\ legit' = legit /\ gaps' = gaps
  BY <1>1 DEF vars
<1>4. SweepInv'
  BY <1>1, <1>2, <1>3, AdvanceStep
<1> QED BY <1>1, <1>3, <1>4, OpInvUnchanged DEF Promised, CleanInv, Grows

\* The others may change what a sweep has listed, but not what it has read.
LEMMA BesideStep ==
  ASSUME CleanInv, Beside
  PROVE  Promised
<1>1. OpInv' /\ Grows /\ Back /\ Undone /\ ForeignTargetKept /\ ForeignBackupKept
  BY NextStep DEF Beside, CleanInv
<1>2. case' = case /\ legit \subseteq legit' /\ gaps \subseteq gaps'
  BY <1>1 DEF Grows
<1>3. sweep \in Sweeps /\ SweepKnown
  BY DEF CleanInv, SweepInv, SweepKnown
<1>4. /\ sweep' \in Sweeps /\ sweep'.step = sweep.step /\ sweep'.at = sweep.at
      /\ sweep'.seen = sweep.seen
      /\ sweep.at = "write" /\ sweep.step # 0 /\ ~sweep'.stale => ~sweep.stale /\ obj' = obj
  <2>1. CASE sweep.step = 0
    BY <1>3, <2>1 DEF Beside
  <2>2. CASE sweep.step # 0
    <3> DEFINE stale == sweep.stale \/ (sweep.at = "write" /\ obj' # obj)
    <3>1. sweep' = [sweep EXCEPT !.calm = FALSE, !.stale = stale]
      BY <2>2 DEF Beside
    <3>2. stale \in BOOLEAN
      BY <1>3 DEF Sweeps
    <3>3. ~stale /\ sweep.at = "write" => ~sweep.stale /\ obj' = obj
      OBVIOUS
    <3> HIDE DEF stale
    <3>4. /\ sweep' \in Sweeps /\ sweep'.step = sweep.step /\ sweep'.at = sweep.at
          /\ sweep'.seen = sweep.seen /\ sweep'.stale = stale
      BY <1>3, <3>1, <3>2 DEF Sweeps
    <3> QED BY <3>3, <3>4
  <2> QED BY <2>1, <2>2
<1>5. sweep.step # 0 => Finds(sweep.step)'
  BY <1>2, <1>3, <1>4, FindsKept DEF SweepKnown
<1>6. SweepKnown'
  BY <1>2, <1>3, <1>4, <1>5 DEF SweepKnown, Is
<1>7. Fit(case.kind, legit, sweep.seen)' /\ (gaps' = {} => Sound(case.kind, legit, sweep.seen)')
  <2>1. Fit(case.kind, legit, sweep.seen) /\ (gaps = {} => Sound(case.kind, legit, sweep.seen))
    BY DEF CleanInv, SweepInv
  <2> QED BY <1>2, <1>4, <2>1, FitMore
<1> QED BY <1>1, <1>6, <1>7 DEF Promised, CleanInv, SweepInv

LEMMA CleanStep ==
  ASSUME CleanInv, CleanNext
  PROVE  Promised
  BY StartSweepStep, RunCleanStep, BesideStep DEF CleanNext

LEMMA CleanStutter ==
  ASSUME CleanInv, UNCHANGED cleanVars
  PROVE  CleanInv' /\ Back /\ Undone /\ ForeignTargetKept /\ ForeignBackupKept
<1>1. UNCHANGED vars /\ sweep' = sweep /\ OpInv
  BY DEF cleanVars, CleanInv
<1>2. case' = case /\ legit' = legit /\ gaps' = gaps /\ obj' = obj
  BY <1>1 DEF vars
<1>3. sweep.step # 0 => Finds(sweep.step)'
  BY <1>1, <1>2, FindsKept DEF CleanInv, SweepInv, SweepKnown
<1>4. SweepKnown'
  BY <1>1, <1>2, <1>3 DEF CleanInv, SweepInv, SweepKnown, Is
<1>5. SweepInv'
  BY <1>1, <1>2, <1>4 DEF CleanInv, SweepInv
<1> QED BY <1>1, <1>5, OpInvUnchanged DEF CleanInv

LEMMA CleanInitStep ==
  ASSUME CleanInit
  PROVE  CleanInv
<1>1. OpInv /\ sweep = Rest
  BY InitStep DEF CleanInit
<1>2. /\ sweep \in Sweeps /\ sweep.step = 0 /\ sweep.at = "idle" /\ sweep.seen = Gone
  BY <1>1, GoneFacts DEF Rest, Sweeps
<1> QED BY <1>1, <1>2, GoneFits DEF CleanInv, SweepInv, SweepKnown

-----------------------------------------------------------------------------
(* What the injectors promise *)

\* Whatever happens, an operation and a sweep know what they act on; and until
\* something has happened that rollback data cannot undo, every target holds
\* either its original or the means to get it back.
THEOREM CleanInvariant == CleanSpec => []CleanInv
<1>1. CleanInit => CleanInv
  BY CleanInitStep
<1>2. CleanInv /\ [CleanNext]_cleanVars => CleanInv'
  BY CleanStep, CleanStutter DEF Promised
<1> QED BY <1>1, <1>2, PTL DEF CleanSpec

\* The guarded types never take their own fault for the original, and a
\* namespace that is still being deleted is never taken for restored, with
\* TypeOK the type invariant.
THEOREM OnlyExcusedHolds == CleanSpec => []OnlyExcused
<1>1. CleanInv => OnlyExcused
  BY DEF CleanInv, OpInv, Base, Types, Excused, OnlyExcused
<1> QED BY <1>1, CleanInvariant, PTL

LEMMA RecoverableIs ==
  ASSUME CleanInv
  PROVE  Recoverable
<1> SUFFICES ASSUME gaps = {}
             PROVE  /\ Is(InPlace) /\ obj.here /\ ~Genuine(obj.val) =>
                         \/ obj.mark = Corrupt
                         \/ IF Is({"SecretDrift"})
                            THEN side.here /\ Genuine(side.val) /\ obj.mark = Ref
                            ELSE IF Is({"FinalizerBlock"}) THEN obj.mark = Scalar("fault")
                            ELSE obj.mark = Created \/ Genuine(obj.mark)
                    /\ taken /\ ~obj.here => side.here /\ Genuine(side.val)
  BY DEF Recoverable
<1>1. /\ Fit(case.kind, legit, obj) /\ Sound(case.kind, legit, obj) /\ SideSound /\ SideKnown
      /\ legit \subseteq Values
  BY Basics DEF CleanInv, OpInv, Base, Fits, SureBase
<1>2. taken => side.here /\ Genuine(side.val)
  <2>1. taken => OwnBackup /\ Is(Deleting)
    BY <1>1 DEF SideSound, SideKnown
  <2> QED BY <1>1, <2>1, GenuineIs DEF SideSound, OwnBackup
<1>3. ASSUME Is(InPlace), obj.here, ~Genuine(obj.val), obj.mark # Corrupt
      PROVE  IF Is({"SecretDrift"})
             THEN side.here /\ Genuine(side.val) /\ obj.mark = Ref
             ELSE IF Is({"FinalizerBlock"}) THEN obj.mark = Scalar("fault")
             ELSE obj.mark = Created \/ Genuine(obj.mark)
  <2>1. obj.mark \in Marks(case.kind) /\ Guard(case.kind, legit, obj) /\ obj \in Objects
        /\ obj.val \in Values
    BY <1>1, <1>3 DEF Fit, Objects
  <2>2. ~GenuineIn(legit, obj.val)
    BY <1>3, GenuineIs
  <2>3. CASE case.kind = "SecretDrift"
    <3>1. obj.mark = Ref
      BY <1>1, <1>3, <2>1, <2>2, <2>3, MarkValues DEF Sound, Whole, Is
    <3>2. side.here /\ GenuineIn(legit, side.val)
      BY <1>1, <1>3, <2>2, <2>3, <3>1 DEF SideSound, SideFits, Is
    <3> QED BY <2>3, <3>1, <3>2, GenuineIs DEF Is
  <2>4. CASE case.kind = "FinalizerBlock"
    <3>1. obj.mark # NoMark
      <4> SUFFICES ASSUME obj.mark = NoMark PROVE FALSE
        OBVIOUS
      <4>1. "fault" \notin obj.val.s
        BY <1>1, <1>3, <2>4 DEF Sound, Whole, Is
      <4>2. obj.val.t = "map" /\ Map(obj.val.s \ {"fault"}) \in legit
        BY <2>1, <2>4 DEF Guard
      <4>3. obj.val.s \ {"fault"} = obj.val.s
        BY <4>1
      <4>4. Map(obj.val.s) = obj.val
        BY <2>1, <4>2, MapIs
      <4> QED BY <2>2, <4>2, <4>3, <4>4 DEF GenuineIn
    <3>2. obj.mark = Scalar("fault")
      BY <1>3, <2>1, <2>4, <3>1, MarkValues
    <3> QED BY <2>4, <3>2 DEF Is
  <2>5. CASE case.kind \notin {"SecretDrift", "FinalizerBlock"}
    <3>1. obj.mark # NoMark
      BY <1>1, <1>3, <2>2, <2>5 DEF Sound, Whole, Is
    <3>2. case.kind \in Valued
      BY <1>3, <2>5 DEF Valued, Is
    <3>3. obj.mark \in Values \cup {Created}
      BY <1>3, <2>1, <3>1, <3>2, MarkValues
    <3>4. obj.mark = Created \/ Genuine(obj.mark)
      BY <1>1, <1>3, <3>2, <3>3, GenuineIs DEF Sound
    <3> QED BY <2>5, <3>4 DEF Is
  <2> QED BY <2>3, <2>4, <2>5
<1> QED BY <1>2, <1>3

\* No order of injections, reverts, clean-ups, sweeps, crashes, failing calls
\* and edits loses the original of a target, except those recorded in `gaps'.
THEOREM NothingLost == CleanSpec => []Recoverable
<1>1. CleanInv => Recoverable
  BY RecoverableIs
<1> QED BY <1>1, CleanInvariant, PTL

\* A Revert or clean-up closure that returns without an error has restored the
\* target, and an injection of WebhookLatency that fails leaves none of its
\* objects.
THEOREM RevertsRestore == CleanSpec => RevertRestores
<1>1. CleanInv /\ [CleanNext]_cleanVars =>
        [/\ call'.at = "ok" /\ call.at # "ok" /\ call.op \in Undo /\ gaps' = {} => Restored'
         /\ Is({"WebhookLatency"}) /\ call.op = "inject" /\ call.at \in {"create", "drop"}
              /\ call'.at = "error" /\ ~call'.failed
              => parts' = {}]_vars
  BY CleanStep, CleanStutter DEF Promised, Back, Undone
<1> QED BY <1>1, CleanInvariant, PTL DEF CleanSpec, RevertRestores

\* Nothing overwrites or deletes a PodDisruptionBudget, quota or backup that
\* belongs to somebody else, unless it has come since the operation looked.
THEOREM ForeignIsKept == CleanSpec => ForeignKept
<1>1. CleanInv /\ [CleanNext]_cleanVars =>
        [/\ Is({"PDBBlock", "QuotaExhaustion"}) /\ obj.here /\ ~Ours(obj) /\ obj' # obj
            => edits' # edits \/ call.stale \/ (Is({"QuotaExhaustion"}) /\ call.op = "cleanup")
         /\ side.here /\ ~side.managed /\ side' # side
            => call.op \in Undo /\ ~Is({"SecretDeletion"})]_vars
  BY CleanStep, CleanStutter DEF Promised, ForeignTargetKept, ForeignBackupKept
<1> QED BY <1>1, CleanInvariant, PTL DEF CleanSpec, ForeignKept

-----------------------------------------------------------------------------
(* A sweep that nothing interferes with *)

\* The targets that one step of a sweep takes care of.
Alone == \/ Is({"ClusterRoleBinding", "ValidatingWebhook", "SecretDrift", "ClientFault"})
         \/ Is({"FinalizerBlock", "FieldMutation"}) /\ case.res = "Deployment"

\* An injected ConfigMap has both the annotation and the label.
Labelled == Is({"ClientFault"}) /\ obj.here /\ obj.mark # NoMark => Ours(obj)

\* What such a sweep has seen and done.
Calm ==
    sweep.calm /\ sweep.step # 0 =>
        /\ call = Idle /\ ~sweep.stale
        /\ Alone /\ sweep.at # "drop" => gaps = {}
        /\ Is({"ConfigMapDrift", "NetworkPartition"}) => gaps = {}
        /\ Is({"ConfigMapDrift"}) /\ sweep.step = 11 /\ obj.here => obj.mark \in {NoMark, Corrupt}
        /\ Is({"NetworkPartition"}) /\ sweep.step = 5 => ~(obj.here /\ Ours(obj))
        /\ Is({"SecretDrift"}) /\ sweep.at \in {"write", "drop"} => side.here
        /\ Is({"SecretDrift"}) /\ sweep.at = "drop" /\ side.val # Absent /\ obj.here =>
              GenuineIn(legit, obj.val)
CalmInv == CleanInv /\ Calm /\ Labelled

\* What a sweep leaves of the targets it takes care of.
Mended == IF Is({"SecretDrift"}) THEN obj.here => Genuine(obj.val) ELSE Restored
EndsWell ==
    sweep.step # 0 /\ sweep'.step = 0 /\ sweep'.calm /\ CleanCovers /\ obj.mark # Corrupt => Mended'

\* Which steps find the targets that a sweep takes care of.
LEMMA CoveredSteps ==
  ASSUME case \in Cases, NEW n \in 1..11, Finds(n)
  PROVE  /\ Is({"ValidatingWebhook"}) => n = 6
         /\ Is({"ClusterRoleBinding"}) => n = 7
         /\ Is({"FinalizerBlock"}) /\ case.res = "Deployment" => n = 8
         /\ Is({"SecretDrift"}) => n = 9
         /\ Is({"FieldMutation"}) /\ case.res = "Deployment" => n = 10
         /\ Is({"ClientFault"}) => n = 11
         /\ Is({"ConfigMapDrift"}) => n \in {9, 11}
         /\ Is({"NetworkPartition"}) => n \in {1, 5}
<1>1. case.res \in ResourcesOf(case.kind)
  BY ResourcesAssumption
<1>2. /\ Is({"ValidatingWebhook"}) => case.res = "ValidatingWebhookConfiguration"
      /\ Is({"ClusterRoleBinding"}) => case.res = "ClusterRoleBinding"
      /\ Is({"ConfigMapDrift", "ClientFault"}) => case.res = "ConfigMap"
      /\ Is({"NetworkPartition"}) => case.res = "NetworkPolicy"
  BY <1>1 DEF ResourcesOf, Is
<1>3. Is({"SecretDrift"}) => case.res \notin Listed
  BY <1>1 DEF ResourcesOf, Is
<1>4. /\ n \in {1, 5} => case.res = "NetworkPolicy"
      /\ n = 2 => case.res = "Lease"
      /\ n = 3 => case.res = "ClusterRole"
      /\ n = 4 => case.res = "RoleBinding"
  <2>1. CASE n = 1
    BY <2>1 DEF Finds
  <2>2. CASE n = 2
    BY <2>2 DEF Finds
  <2>3. CASE n = 3
    BY <2>3 DEF Finds
  <2>4. CASE n = 4
    BY <2>4 DEF Finds
  <2>5. CASE n = 5
    BY <2>5 DEF Finds
  <2>6. CASE n \notin 1..5
    BY <2>6
  <2> QED BY <2>1, <2>2, <2>3, <2>4, <2>5, <2>6
<1>5. /\ n = 6 => case.res = "ValidatingWebhookConfiguration"
      /\ n = 7 => case.res \in {"ClusterRoleBinding", "RoleBinding"}
      /\ n = 8 => Is({"FinalizerBlock"})
      /\ n = 9 => Is({"ConfigMapDrift", "SecretDrift"})
      /\ n = 10 => Is({"FieldMutation", "PathMutation", "OwnerRefOrphan"})
      /\ n = 11 => case.res = "ConfigMap" \/ Is({"LeaderElection", "NamespaceDeletion"})
  <2>1. CASE n = 6
    BY <2>1 DEF Finds
  <2>2. CASE n = 7
    BY <2>2 DEF Finds
  <2>3. CASE n = 8
    BY <2>3 DEF Finds
  <2>4. CASE n = 9
    BY <2>4 DEF Finds
  <2>5. CASE n = 10
    BY <2>5 DEF Finds
  <2>6. CASE n = 11
    BY <2>6 DEF Finds
  <2>7. CASE n \notin 6..11
    BY <2>7
  <2> QED BY <2>1, <2>2, <2>3, <2>4, <2>5, <2>6, <2>7
<1>6. n \in {1, 2, 3, 4, 5, 6, 7, 8, 9, 10, 11}
  OBVIOUS
<1>7. CASE Is({"ValidatingWebhook"})
  BY <1>2, <1>4, <1>5, <1>6, <1>7 DEF Is
<1>8. CASE Is({"ClusterRoleBinding"})
  BY <1>2, <1>4, <1>5, <1>6, <1>8 DEF Is
<1>9. CASE Is({"FinalizerBlock", "FieldMutation"}) /\ case.res = "Deployment"
  BY <1>4, <1>5, <1>6, <1>9 DEF Is
<1>10. CASE Is({"SecretDrift"})
  BY <1>3, <1>4, <1>5, <1>6, <1>10 DEF Is, Listed, Restorable
<1>11. CASE Is({"ClientFault", "ConfigMapDrift"})
  BY <1>2, <1>4, <1>5, <1>6, <1>11 DEF Is
<1>12. CASE Is({"NetworkPartition"})
  BY <1>2, <1>4, <1>5, <1>6, <1>12 DEF Is
<1> QED BY <1>7, <1>8, <1>9, <1>10, <1>11, <1>12 DEF Is

\* Where a sweep goes on.
LEMMA AdvanceTo ==
  ASSUME NEW STATE calm, sweep \in Sweeps, Advance(calm)
  PROVE  /\ sweep'.calm = calm /\ ~sweep'.stale /\ sweep'.at \in {"idle", "list"}
         /\ sweep'.step = 0 => \A n \in sweep.step + 1..11 : ~Finds(n)
         /\ sweep'.step # 0 => /\ sweep'.step \in sweep.step + 1..11 /\ Finds(sweep'.step)
                               /\ \A n \in sweep.step + 1..11 : Finds(n) => sweep'.step =< n
<1> DEFINE left == {n \in sweep.step + 1..11 : Finds(n)}
           at == IF left = {} THEN 0 ELSE Min(left)
<1>1. sweep' = [step |-> at, at |-> IF left = {} THEN "idle" ELSE "list", seen |-> Gone,
                stale |-> FALSE, calm |-> calm]
  BY DEF Advance, Rest
<1>2. sweep.step \in 0..11
  BY DEF Sweeps
<1>3. left \subseteq 1..11
  BY <1>2
<1>4. left = {} => \A n \in sweep.step + 1..11 : ~Finds(n)
  OBVIOUS
<1>5. \A n \in left : n \in sweep.step + 1..11 /\ Finds(n)
  OBVIOUS
<1>6. \A n \in sweep.step + 1..11 : Finds(n) => n \in left
  OBVIOUS
<1> HIDE DEF left
<1>7. left # {} => Min(left) \in left /\ \A n \in left : Min(left) =< n
  BY <1>3, LeastOf
<1>8. /\ sweep'.step = at /\ sweep'.at = IF left = {} THEN "idle" ELSE "list"
      /\ sweep'.calm = calm /\ sweep'.stale = FALSE
  BY <1>1
<1>9. CASE left = {}
  BY <1>4, <1>8, <1>9
<1>10. CASE left # {}
  <2>1. at = Min(left)
    BY <1>10
  <2>2. at \in left /\ \A n \in left : at =< n
    BY <1>7, <1>10, <2>1
  <2>3. at # 0
    BY <1>3, <2>2
  <2> HIDE DEF at
  <2> QED BY <1>5, <1>6, <1>8, <1>10, <2>2, <2>3
<1> QED BY <1>9, <1>10

\* A sweep that goes on to another step, or ends, without interference.
LEMMA CalmAdvance ==
  ASSUME CleanInv, NEW STATE calm, Advance(calm), case' = case, sweep.step # 0,
         calm => /\ call' = Idle
                 /\ Is({"ConfigMapDrift"}) /\ sweep.step = 9 =>
                       gaps' = {} /\ (obj'.here => obj'.mark \in {NoMark, Corrupt})
                 /\ Is({"NetworkPartition"}) /\ sweep.step = 1 =>
                       gaps' = {} /\ ~(obj'.here /\ Ours(obj'))
  PROVE  Calm'
<1> SUFFICES ASSUME sweep'.calm, sweep'.step # 0 PROVE Calm'
  BY DEF Calm
<1>1. sweep \in Sweeps /\ Finds(sweep.step) /\ case \in Cases /\ sweep.step \in 1..11
  <2>1. sweep \in Sweeps /\ Finds(sweep.step) /\ case \in Cases
    BY Basics DEF CleanInv, OpInv, SweepInv, SweepKnown
  <2>2. sweep.step \in 1..11
    BY <2>1 DEF Sweeps
  <2> QED BY <2>1, <2>2
<1>2. /\ calm = sweep'.calm /\ ~sweep'.stale /\ sweep'.at \in {"idle", "list"}
      /\ sweep'.step \in sweep.step + 1..11 /\ Finds(sweep'.step)
  BY <1>1, AdvanceTo
<1>3. sweep'.step \in 1..11 /\ sweep'.step # sweep.step /\ sweep'.step > sweep.step
  BY <1>1, <1>2
<1>4. ~Alone'
  <2>1. ~Alone
    BY <1>1, <1>2, <1>3, CoveredSteps DEF Alone, Is
  <2> QED BY <2>1 DEF Alone, Is
<1>5. Is({"ConfigMapDrift"}) => sweep.step = 9
  <2>1. Is({"ConfigMapDrift"}) => sweep.step \in {9, 11} /\ sweep'.step \in {9, 11}
    BY <1>1, <1>2, <1>3, CoveredSteps
  <2> QED BY <1>3, <2>1
<1>6. Is({"NetworkPartition"}) => sweep.step = 1
  <2>1. Is({"NetworkPartition"}) => sweep.step \in {1, 5} /\ sweep'.step \in {1, 5}
    BY <1>1, <1>2, <1>3, CoveredSteps
  <2> QED BY <1>3, <2>1
<1>7. \A kinds : Is(kinds)' <=> Is(kinds)
  BY DEF Is
<1>8. Ours(obj)' <=> Ours(obj')
  BY DEF Ours
<1> QED BY <1>2, <1>4, <1>5, <1>6, <1>7, <1>8 DEF Calm, Is

\* What a target owes that Restored speaks of.
LEMMA MendedIs ==
  ASSUME Is(InPlace)', parts' = {}, ~Is({"SecretDrift"})', Clean(case.kind, legit, obj)'
  PROVE  Mended'
<1>1. ~Is(Deleting)' /\ ~Is(Creating)'
  BY InPlaceFacts DEF Is, InPlace, Deleting, Creating
<1>2. obj'.here => IF case'.kind \in {"FinalizerBlock"} THEN "fault" \notin obj'.val.s
                   ELSE Genuine(obj.val)'
  BY DEF Clean, Whole, Genuine, GenuineIn, Keys
<1> QED BY <1>1, <1>2 DEF Mended, Restored, Clean, Is

\* Nothing but a sweep ends a sweep, and the others end its calm.
LEMMA CalmBeside ==
  ASSUME CalmInv, Beside
  PROVE  Calm' /\ EndsWell
<1>1. sweep \in Sweeps
  BY DEF CalmInv, CleanInv, SweepInv, SweepKnown
<1>2. CASE sweep.step = 0
  BY <1>2 DEF Beside, Calm, EndsWell
<1>3. CASE sweep.step # 0
  <2>1. sweep'.step = sweep.step /\ ~sweep'.calm
    BY <1>1, <1>3 DEF Beside, Sweeps
  <2> QED BY <1>3, <2>1 DEF Calm, EndsWell
<1> QED BY <1>2, <1>3

LEMMA CalmStart ==
  ASSUME CalmInv, StartSweep
  PROVE  Calm' /\ EndsWell
<1> DEFINE calm == call = Idle /\ gaps = {}
<1>1. sweep.step = 0 /\ Advance(calm) /\ UNCHANGED vars
  BY DEF StartSweep
<1>2. sweep \in Sweeps /\ case \in Cases
  BY Basics DEF CalmInv, CleanInv, OpInv, SweepInv, SweepKnown
<1>3. sweep'.calm /\ sweep'.step # 0 => call = Idle /\ gaps = {}
  <2>1. calm => call = Idle /\ gaps = {}
    OBVIOUS
  <2> HIDE DEF calm
  <2>2. sweep'.calm = calm
    BY <1>1, <1>2, AdvanceTo
  <2> QED BY <2>1, <2>2
<1> HIDE DEF calm
<1>4. ~sweep'.stale /\ sweep'.at \in {"idle", "list"}
      /\ (sweep'.step # 0 => sweep'.step \in 1..11
                             /\ \A n \in 1..11 : Finds(n) => sweep'.step =< n)
  BY <1>1, <1>2, AdvanceTo
<1>5. UNCHANGED <<case, obj, side, call, gaps, legit>>
  BY <1>1 DEF vars
<1>6. Is({"ConfigMapDrift"}) => Finds(9)
  BY DEF Finds, Is
<1>7. Is({"NetworkPartition"}) => Finds(1)
  <2>1. case.res \in ResourcesOf(case.kind)
    BY <1>2, ResourcesAssumption
  <2> QED BY <2>1 DEF Finds, Is, ResourcesOf
<1>8. sweep'.step # 0 => /\ Is({"ConfigMapDrift"}) => sweep'.step # 11
                         /\ Is({"NetworkPartition"}) => sweep'.step # 5
  BY <1>4, <1>6, <1>7
<1>9. Calm'
  BY <1>3, <1>4, <1>5, <1>8 DEF Calm, Is
<1> QED BY <1>1, <1>9 DEF EndsWell

LEMMA CalmList ==
  ASSUME CalmInv, NEW n \in 1..11, NEW STATE match, List(n, match),
         Is({"ConfigMapDrift"}) /\ n = 9 /\ ~match /\ obj.here => obj.mark \in {NoMark, Corrupt},
         Is({"NetworkPartition"}) /\ n = 1 /\ ~match => ~(obj.here /\ Ours(obj)),
         Is({"SecretDrift"}) /\ n = 9 /\ match => side.here
  PROVE  /\ Calm'
         /\ sweep'.step = 0 /\ sweep'.calm => sweep.calm /\ ~match
         /\ sweep.step = n /\ Finds(n) /\ case \in Cases /\ sweep.at = "list"
         /\ UNCHANGED <<case, obj, side, parts, legit, gaps>>
<1>1. /\ sweep.step = n /\ sweep.at = "list" /\ sweep.step # 0
      /\ UNCHANGED <<case, obj, side, parts, call, legit, gaps>>
  BY DEF List, history
<1>2. CleanInv /\ Calm /\ sweep \in Sweeps /\ Finds(n) /\ case \in Cases
  BY <1>1, Basics DEF CalmInv, CleanInv, OpInv, SweepInv, SweepKnown
<1>3. Is({"SecretDrift"}) => n = 9
  BY <1>2, CoveredSteps
<1>4. CASE match /\ sweep' = [sweep EXCEPT !.at = "write", !.seen = obj, !.stale = FALSE]
  <2>1. sweep'.step = n /\ sweep'.at = "write" /\ ~sweep'.stale /\ sweep'.calm = sweep.calm
    BY <1>1, <1>2, <1>4 DEF Sweeps
  <2>2. Is({"SecretDrift"}) => side.here
    BY <1>3, <1>4
  <2>3. Ours(obj)' <=> Ours(obj)
    BY <1>1 DEF Ours
  <2>4. Calm'
    BY <1>1, <1>2, <2>1, <2>2, <2>3 DEF Calm, Is, Alone
  <2> QED BY <1>1, <1>2, <2>1, <2>4
<1>5. CASE ~match /\ Advance(sweep.calm)
  <2>1. sweep.calm => /\ call' = Idle
                      /\ Is({"ConfigMapDrift", "NetworkPartition"}) => gaps' = {}
    BY <1>1, <1>2 DEF Calm
  <2>2. Ours(obj') <=> Ours(obj)
    BY <1>1 DEF Ours
  <2>3. Calm'
    BY <1>1, <1>2, <1>5, <2>1, <2>2, CalmAdvance DEF Is
  <2>4. sweep'.calm = sweep.calm
    BY <1>2, <1>5, AdvanceTo
  <2> QED BY <1>1, <1>2, <1>5, <2>3, <2>4
<1>6. CASE Advance(FALSE)
  <2>1. Calm'
    BY <1>1, <1>2, <1>6, CalmAdvance
  <2>2. ~sweep'.calm
    BY <1>2, <1>6, AdvanceTo
  <2> QED BY <1>1, <1>2, <2>1, <2>2
<1> QED BY <1>4, <1>5, <1>6 DEF List

LEMMA CalmPut ==
  ASSUME CalmInv, NEW n \in 1..11, NEW STATE accepted, NEW STATE o, Put(n, accepted, o),
         sweep.step = n /\ sweep.at = "write" /\ sweep.calm /\ accepted =>
             /\ Is({"ConfigMapDrift"}) /\ n = 9 => Strips(o) = {} /\ o.mark = NoMark
             /\ Is({"NetworkPartition"}) /\ n = 1 => ~o.here
  PROVE  /\ Calm'
         /\ sweep'.step = 0 /\ sweep'.calm => sweep.calm /\ accepted /\ obj' = o
         /\ sweep.step = n /\ Finds(n) /\ case \in Cases /\ sweep.at = "write"
         /\ UNCHANGED <<case, side, parts, legit>>
<1>1. /\ sweep.step = n /\ sweep.at = "write" /\ sweep.step # 0
      /\ UNCHANGED <<case, side, parts, legit>>
  BY DEF Put, Quiet
<1>2. CleanInv /\ Calm /\ sweep \in Sweeps /\ Finds(n) /\ case \in Cases
  BY <1>1, Basics DEF CalmInv, CleanInv, OpInv, SweepInv, SweepKnown
<1>3. CASE accepted /\ obj' = o /\ Advance(sweep.calm)
  <2>1. sweep.calm => call = Idle /\ (Is({"ConfigMapDrift", "NetworkPartition"}) => gaps = {})
    BY <1>1, <1>2 DEF Calm
  <2>2. sweep.calm => call' = Idle /\ Overlaps = {}
    BY <2>1, <1>1 DEF Put, Touched, Overlaps
  <2>3. Is({"NetworkPartition"}) => Strips(o) = {}
    BY DEF Strips, Is, InPlace
  <2>4. gaps' = IF obj' = obj THEN gaps ELSE gaps \cup Strips(o) \cup Overlaps
    BY <1>3 DEF Put
  <2>5. sweep.calm => /\ Is({"ConfigMapDrift"}) /\ n = 9 => gaps' = {} /\ obj'.mark = NoMark
                      /\ Is({"NetworkPartition"}) /\ n = 1 => gaps' = {} /\ ~obj'.here
    BY <1>1, <1>3, <2>1, <2>2, <2>3, <2>4 DEF Is
  <2>6. Calm'
    BY <1>1, <1>2, <1>3, <2>2, <2>5, CalmAdvance
  <2>7. sweep'.calm = sweep.calm
    BY <1>2, <1>3, AdvanceTo
  <2> QED BY <1>1, <1>2, <1>3, <2>6, <2>7
<1>4. CASE Advance(FALSE)
  <2>1. Calm'
    BY <1>1, <1>2, <1>4, CalmAdvance
  <2>2. ~sweep'.calm
    BY <1>2, <1>4, AdvanceTo
  <2> QED BY <1>1, <1>2, <2>1, <2>2
<1> QED BY <1>3, <1>4 DEF Put

LEMMA NoParts ==
  ASSUME CalmInv, ~Is({"WebhookLatency"})
  PROVE  parts = {}
  BY DEF CalmInv, CleanInv, OpInv, Knows

\* A target in place without an annotation is as it was.
LEMMA UnmarkedClean ==
  ASSUME CalmInv, Is(InPlace), gaps = {}, obj.here => obj.mark = NoMark
  PROVE  Clean(case.kind, legit, obj)
<1>1. Sound(case.kind, legit, obj)
  BY DEF CalmInv, CleanInv, OpInv, SureBase
<1> QED BY <1>1 DEF Sound, Clean, Is

LEMMA EndsWith ==
  ASSUME CalmInv, Is(InPlace), ~Is({"SecretDrift"}), UNCHANGED <<case, parts, legit>>,
         Clean(case.kind, legit, obj')
  PROVE  Mended'
<1>1. ~Is({"WebhookLatency"})
  BY DEF Is, InPlace
<1>2. parts' = {}
  BY <1>1, NoParts
<1>3. Clean(case.kind, legit, obj)'
  BY DEF Clean, Whole, GenuineIn, Keys
<1>4. Is(InPlace)' /\ ~Is({"SecretDrift"})'
  BY DEF Is
<1> QED BY <1>2, <1>3, <1>4, MendedIs

LEMMA PolicyEnds ==
  ASSUME CalmInv, Is({"NetworkPartition"}), UNCHANGED <<case, parts>>, ~(obj'.here /\ Ours(obj'))
  PROVE  Mended'
<1>1. parts = {}
  BY NoParts DEF Is
<1> QED BY <1>1 DEF Mended, Restored, Is, InPlace, Deleting, Creating, Ours

LEMMA CalmDelete ==
  ASSUME CalmInv, NEW n \in {1, 2, 3, 4, 11}, DeleteMatchingResources(n)
  PROVE  Calm' /\ EndsWell
<1> DEFINE o == IF obj.val.t = "map" /\ Is({"FinalizerBlock"}) THEN [obj EXCEPT !.term = TRUE]
                ELSE Gone
<1>1. n \in 1..11 /\ n # 9
  OBVIOUS
<1>2. ~Is({"FinalizerBlock"}) => o = Gone
  OBVIOUS
<1> HIDE DEF o
<1>3. List(n, obj.here /\ Ours(obj)) \/ Put(n, obj.here, o)
  BY DEF DeleteMatchingResources, o
<1>4. ASSUME CleanCovers, Finds(n), case \in Cases
      PROVE  \/ Is({"NetworkPartition"})
             \/ Is({"ConfigMapDrift", "ClientFault"}) /\ n = 11
  BY <1>1, <1>4, CoveredSteps DEF CleanCovers, Is
<1>5. CASE List(n, obj.here /\ Ours(obj))
  <2>1. /\ Calm'
        /\ sweep'.step = 0 /\ sweep'.calm => sweep.calm /\ ~(obj.here /\ Ours(obj))
        /\ sweep.step = n /\ Finds(n) /\ case \in Cases /\ sweep.at = "list"
        /\ UNCHANGED <<case, obj, side, parts, legit, gaps>>
    BY <1>1, <1>5, CalmList
  <2>2. ASSUME sweep'.step = 0, sweep'.calm, CleanCovers, obj.mark # Corrupt PROVE Mended'
    <3>1. CASE Is({"NetworkPartition"})
      BY <2>1, <2>2, <3>1, PolicyEnds DEF Ours
    <3>2. CASE Is({"ConfigMapDrift", "ClientFault"}) /\ n = 11
      <4>1. Is(InPlace) /\ ~Is({"SecretDrift"}) /\ (Is({"ConfigMapDrift"}) \/ Alone)
        BY <3>2 DEF Is, InPlace, Alone
      <4>2. gaps = {} /\ (Is({"ConfigMapDrift"}) /\ obj.here => obj.mark = NoMark)
        BY <1>1, <2>1, <2>2, <3>2, <4>1 DEF CalmInv, Calm, Is
      <4>3. Is({"ClientFault"}) /\ obj.here => obj.mark = NoMark
        BY <2>1, <2>2 DEF CalmInv, Labelled
      <4>4. Clean(case.kind, legit, obj)
        BY <3>2, <4>1, <4>2, <4>3, UnmarkedClean DEF Is
      <4> QED BY <2>1, <4>1, <4>4, EndsWith
    <3> QED BY <1>4, <2>1, <2>2, <3>1, <3>2
  <2> QED BY <2>1, <2>2 DEF EndsWell
<1>6. CASE Put(n, obj.here, o)
  <2>1. Is({"NetworkPartition"}) => ~o.here
    BY <1>2, GoneFacts DEF Is
  <2>2. /\ Calm'
        /\ sweep'.step = 0 /\ sweep'.calm => obj' = o
        /\ sweep.step = n /\ Finds(n) /\ case \in Cases
        /\ UNCHANGED <<case, side, parts, legit>>
    BY <1>1, <1>6, <2>1, CalmPut
  <2>3. ASSUME sweep'.step = 0, sweep'.calm, CleanCovers PROVE Mended'
    <3>1. \/ Is({"NetworkPartition"})
          \/ Is({"ConfigMapDrift", "ClientFault"})
      BY <1>4, <2>2, <2>3
    <3>2. obj' = Gone /\ ~obj'.here
      BY <1>2, <2>2, <2>3, <3>1, GoneFacts DEF Is
    <3>3. CASE Is({"NetworkPartition"})
      BY <2>2, <3>2, <3>3, PolicyEnds
    <3>4. CASE Is({"ConfigMapDrift", "ClientFault"})
      <4>1. Is(InPlace) /\ ~Is({"SecretDrift"}) /\ Clean(case.kind, legit, obj')
        BY <3>2, <3>4 DEF Is, InPlace, Clean
      <4> QED BY <2>2, <4>1, EndsWith
    <3> QED BY <3>1, <3>3, <3>4
  <2> QED BY <2>2, <2>3 DEF EndsWell
<1> QED BY <1>3, <1>5, <1>6

LEMMA CalmTTL ==
  ASSUME CalmInv, CleanTTLExpired
  PROVE  Calm' /\ EndsWell
<1>1. 5 \in 1..11 /\ 5 # 9 /\ 5 # 1
  OBVIOUS
<1>2. ASSUME CleanCovers, Finds(5), case \in Cases PROVE Is({"NetworkPartition"})
  BY <1>1, <1>2, CoveredSteps DEF CleanCovers, Is
<1>3. ASSUME NEW expired \in BOOLEAN, List(5, expired /\ obj.here /\ obj.val = case.fault)
      PROVE  Calm' /\ EndsWell
  <2>1. /\ Calm' /\ (sweep'.step = 0 /\ sweep'.calm => sweep.calm)
        /\ sweep.step = 5 /\ Finds(5) /\ case \in Cases
        /\ UNCHANGED <<case, obj, side, parts, legit, gaps>>
    BY <1>1, <1>3, CalmList
  <2>2. ASSUME sweep'.step = 0, sweep'.calm, CleanCovers PROVE Mended'
    <3>1. Is({"NetworkPartition"})
      BY <1>2, <2>1, <2>2
    <3>2. ~(obj.here /\ Ours(obj))
      BY <2>1, <2>2, <3>1 DEF CalmInv, Calm
    <3> QED BY <2>1, <3>1, <3>2, PolicyEnds DEF Ours
  <2> QED BY <2>1, <2>2 DEF EndsWell
<1>4. CASE Put(5, obj.here, Gone)
  <2>1. /\ Calm' /\ (sweep'.step = 0 /\ sweep'.calm => obj' = Gone)
        /\ sweep.step = 5 /\ Finds(5) /\ case \in Cases /\ UNCHANGED <<case, side, parts, legit>>
    BY <1>1, <1>4, CalmPut
  <2>2. ASSUME sweep'.step = 0, sweep'.calm, CleanCovers PROVE Mended'
    BY <1>2, <2>1, <2>2, PolicyEnds, GoneFacts
  <2> QED BY <2>1, <2>2 DEF EndsWell
<1> QED BY <1>3, <1>4 DEF CleanTTLExpired

\* A List that finds no annotation ends its step on a target as it was.
LEMMA CalmUnmarked ==
  ASSUME CalmInv, Alone \/ Is({"ConfigMapDrift"}), ~Is({"SecretDrift"}), Is(InPlace),
         sweep.step # 0, sweep.at = "list", sweep.calm, ~Marked, obj.mark # Corrupt,
         UNCHANGED <<case, obj, parts, legit>>
  PROVE  Mended'
<1>1. gaps = {}
  BY DEF CalmInv, Calm, Is
<1>2. obj.here => obj.mark = NoMark
  BY DEF Marked, UnwrapRollbackData
<1>3. Clean(case.kind, legit, obj)
  BY <1>1, <1>2, UnmarkedClean
<1> QED BY <1>3, EndsWith

\* What the annotation gives back.
LEMMA RestoredClean ==
  ASSUME CleanInv, sweep.step \in 6..10, sweep.at = "write", gaps = {},
         case.kind \in {"ValidatingWebhook", "ClusterRoleBinding", "RoleBinding", "ConfigMapDrift"}
  PROVE  LET o == RemoveChaosMetadata(With(seen, seen.mark))
         IN  Clean(case.kind, legit, o) /\ Strips(o) = {} /\ o.mark = NoMark
<1> DEFINE o == RemoveChaosMetadata(With(seen, seen.mark))
<1>1. /\ seen \in Objects /\ seen.mark \in Marks(case.kind) /\ seen.mark \notin {NoMark, Corrupt}
      /\ Sound(case.kind, legit, seen) /\ seen.here /\ Is(InPlace)
  BY SeenFacts
<1>2. case.kind \in Valued \ {"ClientFault"} /\ case.kind # "FinalizerBlock"
  BY DEF Valued, InPlace
<1>3. seen.mark \in Values
  BY <1>1, <1>2, MarkValues
<1>4. o.val = seen.mark /\ o.mark = NoMark /\ o.label = "none" /\ o.here = seen.here
  BY <1>1, <1>3, RestoredFacts
<1>5. GenuineIn(legit, o.val)
  BY <1>1, <1>2, <1>3, <1>4 DEF Sound
<1> HIDE DEF o
<1>6. Clean(case.kind, legit, o)
  BY <1>2, <1>4, <1>5 DEF Clean, Whole
<1>7. Strips(o) = {}
  <2>1. Genuine(o.val) /\ o.here
    BY <1>1, <1>4, <1>5, GenuineIs
  <2> QED BY <2>1 DEF Strips
<1>8. Clean(case.kind, legit, o) /\ Strips(o) = {} /\ o.mark = NoMark
  BY <1>4, <1>6, <1>7
<1> QED BY <1>8 DEF o

LEMMA CalmCopied ==
  ASSUME CalmInv, CleanWebhookConfigurations \/ CleanRBACBindings
  PROVE  Calm' /\ EndsWell
<1> DEFINE o == RemoveChaosMetadata(With(seen, seen.mark))
<1>1. 6 \in 1..11 /\ 7 \in 1..11
  OBVIOUS
<1>2. PICK n \in {6, 7} : List(n, Marked) \/ Put(n, Fresh, o)
  BY DEF CleanWebhookConfigurations, CleanRBACBindings
<1>3. n \in 1..11 /\ n \in 6..10 /\ n # 9 /\ n # 1
  OBVIOUS
<1>4. ASSUME CleanCovers, Finds(n), case \in Cases
      PROVE  Is({"ValidatingWebhook", "ClusterRoleBinding"})
  BY <1>3, <1>4, CoveredSteps DEF CleanCovers, Is
<1>5. Is({"ValidatingWebhook", "ClusterRoleBinding"}) =>
        Alone /\ ~Is({"SecretDrift"}) /\ Is(InPlace)
  BY DEF Is, Alone, InPlace
<1>6. CASE List(n, Marked)
  <2>1. /\ Calm' /\ (sweep'.step = 0 /\ sweep'.calm => sweep.calm /\ ~Marked)
        /\ sweep.step = n /\ Finds(n) /\ case \in Cases /\ sweep.at = "list"
        /\ UNCHANGED <<case, obj, side, parts, legit, gaps>>
    BY <1>3, <1>6, CalmList
  <2>2. ASSUME sweep'.step = 0, sweep'.calm, CleanCovers, obj.mark # Corrupt PROVE Mended'
    BY <1>3, <1>4, <1>5, <2>1, <2>2, CalmUnmarked
  <2> QED BY <2>1, <2>2 DEF EndsWell
<1>7. CASE Put(n, Fresh, o)
  <2> HIDE DEF o
  <2>1. /\ Calm' /\ (sweep'.step = 0 /\ sweep'.calm => sweep.calm /\ obj' = o)
        /\ sweep.step = n /\ Finds(n) /\ case \in Cases /\ sweep.at = "write"
        /\ UNCHANGED <<case, side, parts, legit>>
    BY <1>3, <1>7, CalmPut
  <2>2. ASSUME sweep'.step = 0, sweep'.calm, CleanCovers PROVE Mended'
    <3>1. Is({"ValidatingWebhook", "ClusterRoleBinding"})
      BY <1>4, <2>1, <2>2
    <3>2. gaps = {} /\ CleanInv
      BY <1>3, <1>5, <2>1, <2>2, <3>1 DEF CalmInv, Calm
    <3>3. Clean(case.kind, legit, o)
      BY <1>3, <2>1, <3>1, <3>2, RestoredClean DEF o, Is
    <3> QED BY <1>5, <2>1, <2>2, <3>1, <3>3, EndsWith
  <2> QED BY <2>1, <2>2 DEF EndsWell
<1> QED BY <1>2, <1>6, <1>7

LEMMA CalmFinalizer ==
  ASSUME CalmInv, CleanOrphanedFinalizers \/ CleanFinalizerFromResource
  PROVE  Calm' /\ EndsWell
<1> DEFINE o == WithoutFinalizer(seen)
<1>1. 8 \in 1..11 /\ 8 \in 6..10 /\ 8 # 9 /\ 8 # 1
  OBVIOUS
<1>2. List(8, Marked) \/ Put(8, Fresh, o)
  BY DEF CleanOrphanedFinalizers, CleanFinalizerFromResource
<1>3. ASSUME CleanCovers, Finds(8), case \in Cases
      PROVE  Alone /\ case.kind = "FinalizerBlock" /\ ~Is({"SecretDrift"}) /\ Is(InPlace)
  <2>1. Is({"FinalizerBlock"}) /\ case.res = "Deployment"
    BY <1>1, <1>3, CoveredSteps DEF CleanCovers, Is
  <2> QED BY <2>1 DEF Is, Alone, InPlace
<1>4. CASE List(8, Marked)
  <2>1. /\ Calm' /\ (sweep'.step = 0 /\ sweep'.calm => sweep.calm /\ ~Marked)
        /\ sweep.step = 8 /\ Finds(8) /\ case \in Cases /\ sweep.at = "list"
        /\ UNCHANGED <<case, obj, side, parts, legit, gaps>>
    BY <1>1, <1>4, CalmList
  <2>2. ASSUME sweep'.step = 0, sweep'.calm, CleanCovers, obj.mark # Corrupt PROVE Mended'
    BY <1>1, <1>3, <2>1, <2>2, CalmUnmarked
  <2> QED BY <2>1, <2>2 DEF EndsWell
<1>5. CASE Put(8, Fresh, o)
  <2> HIDE DEF o
  <2>1. /\ Calm' /\ (sweep'.step = 0 /\ sweep'.calm => sweep.calm /\ obj' = o)
        /\ sweep.step = 8 /\ Finds(8) /\ case \in Cases /\ sweep.at = "write"
        /\ UNCHANGED <<case, side, parts, legit>>
    BY <1>1, <1>5, CalmPut
  <2>2. ASSUME sweep'.step = 0, sweep'.calm, CleanCovers PROVE Mended'
    <3>1. Alone /\ case.kind = "FinalizerBlock" /\ ~Is({"SecretDrift"}) /\ Is(InPlace)
      BY <1>3, <2>1, <2>2
    <3>2. seen \in Objects /\ Fit("FinalizerBlock", legit, seen) /\ seen.here
      BY <1>1, <2>1, <3>1, SeenFacts DEF CalmInv
    <3>3. legit \subseteq Values
      BY Basics DEF CalmInv, CleanInv, OpInv
    <3>4. Clean("FinalizerBlock", legit, o)
      BY <3>2, <3>3, WithoutFinalizerFacts DEF o
    <3> QED BY <2>1, <2>2, <3>1, <3>4, EndsWith
  <2> QED BY <2>1, <2>2 DEF EndsWell
<1> QED BY <1>2, <1>4, <1>5

LEMMA CalmSecretWrite ==
  ASSUME CalmInv, Is({"SecretDrift"}), sweep.step = 9, sweep.at = "write",
         NEW STATE v, v = IF side.val = Absent THEN Scalar("c") ELSE side.val,
         NEW STATE o, o = RemoveChaosMetadata(With(seen, v)),
         \/ Fresh /\ obj' = o /\ sweep' = [sweep EXCEPT !.at = "drop"]
         \/ Advance(FALSE),
         Touched(obj'), UNCHANGED <<side, taken>>, Quiet
  PROVE  Calm' /\ EndsWell
<1>1. 9 \in 6..10 /\ CleanInv /\ sweep \in Sweeps /\ case' = case /\ legit' = legit
  BY DEF CalmInv, CleanInv, SweepInv, SweepKnown, Quiet
<1>2. CASE Fresh /\ obj' = o /\ sweep' = [sweep EXCEPT !.at = "drop"]
  <2>1. sweep'.step = 9 /\ sweep'.at = "drop" /\ sweep'.calm = sweep.calm /\ sweep'.stale = sweep.stale
    BY <1>1, <1>2 DEF Sweeps
  <2>2. seen \in Objects /\ side.val \in Values
    BY <1>1, SeenFacts, Basics DEF CleanInv, OpInv
  <2>3. side.val # Absent => o.val = side.val
    BY <2>2, RestoredFacts
  <2>4. sweep.calm => call = Idle /\ ~sweep.stale /\ gaps = {} /\ side.here
    BY DEF CalmInv, Calm, Alone, Is
  <2>5. gaps = {} /\ side.here => GenuineIn(legit, side.val)
    BY <1>1 DEF CleanInv, OpInv, SureBase, SideSound
  <2>6. sweep.calm => call' = Idle
    BY <2>4 DEF Touched
  <2>7. Is({"SecretDrift"})' /\ ~Is({"ConfigMapDrift", "NetworkPartition"})'
    BY <1>1 DEF Is
  <2>8. Calm'
    BY <1>1, <1>2, <2>1, <2>3, <2>4, <2>5, <2>6, <2>7 DEF Calm, Is
  <2> QED BY <2>1, <2>8 DEF EndsWell
<1>3. CASE Advance(FALSE)
  <2>1. ~sweep'.calm
    BY <1>1, <1>3, AdvanceTo
  <2> QED BY <2>1 DEF Calm, EndsWell
<1> QED BY <1>2, <1>3

LEMMA CalmSecretDrop ==
  ASSUME CalmInv, sweep.step = 9, sweep.at = "drop",
         \/ side' = NoBackup /\ Advance(sweep.calm)
         \/ side' \in {side, NoBackup} /\ Advance(FALSE),
         UNCHANGED <<obj, call, taken>>, Quiet
  PROVE  Calm' /\ EndsWell
<1>1. /\ CleanInv /\ Is({"SecretDrift"}) /\ sweep \in Sweeps /\ case' = case /\ legit' = legit
  BY DEF CalmInv, CleanInv, SweepInv, SweepKnown, Quiet
<1>2. CASE Advance(sweep.calm)
  <2>1. sweep.calm => call' = Idle
    BY DEF CalmInv, Calm
  <2>2. ~Is({"ConfigMapDrift"}) /\ ~Is({"NetworkPartition"})
    BY <1>1 DEF Is
  <2>3. Calm'
    BY <1>1, <1>2, <2>1, <2>2, CalmAdvance
  <2>4. ASSUME sweep'.calm, CleanCovers PROVE Mended'
    <3>1. sweep.calm
      BY <1>1, <1>2, <2>4, AdvanceTo
    <3>2. side.here /\ side.val # Absent
      BY <1>1, <2>4, <3>1 DEF CleanCovers, CalmInv, Calm, Is
    <3>3. obj.here => GenuineIn(legit, obj.val)
      BY <1>1, <3>1, <3>2 DEF CalmInv, Calm
    <3>4. obj'.here => Genuine(obj.val)'
      BY <1>1, <3>3 DEF Genuine, GenuineIn, Keys
    <3> QED BY <1>1, <3>4 DEF Mended, Is
  <2> QED BY <2>3, <2>4 DEF EndsWell
<1>3. CASE Advance(FALSE)
  <2>1. ~sweep'.calm
    BY <1>1, <1>3, AdvanceTo
  <2> QED BY <2>1 DEF Calm, EndsWell
<1> QED BY <1>2, <1>3

\* A Secret that the sweep leaves alone has its value.
LEMMA CalmSecretLeft ==
  ASSUME CalmInv, Is({"SecretDrift"}), gaps = {}, ~(Marked /\ side.here), obj.mark # Corrupt,
         UNCHANGED <<case, obj, legit>>
  PROVE  Mended'
<1>1. /\ case.kind = "SecretDrift" /\ Is(InPlace)
      /\ Fit(case.kind, legit, obj) /\ Sound(case.kind, legit, obj) /\ SideFits(obj)
  BY DEF CalmInv, CleanInv, OpInv, Base, Fits, SureBase, SideSound, Is, InPlace
<1>2. ASSUME obj.here PROVE GenuineIn(legit, obj.val)
  <2>1. obj.mark \in {NoMark, Ref}
    BY <1>1, <1>2, MarkValues DEF Fit
  <2>2. CASE obj.mark = NoMark
    BY <1>1, <1>2, <2>2 DEF Sound, Whole, Is
  <2>3. CASE obj.mark = Ref
    <3>1. ~side.here
      BY <1>2, <2>3, ValueFacts DEF Marked, UnwrapRollbackData
    <3> QED BY <1>2, <2>3, <3>1, <1>1 DEF SideFits
  <2> QED BY <2>1, <2>2, <2>3
<1>3. obj'.here => Genuine(obj.val)'
  BY <1>2 DEF Genuine, GenuineIn, Keys
<1> QED BY <1>3 DEF Mended, Is

LEMMA CalmDrift ==
  ASSUME CalmInv, CleanConfigDrift
  PROVE  Calm' /\ EndsWell
<1> DEFINE more == Is({"SecretDrift"}) => side.here
           match == Marked /\ more
           copied == RemoveChaosMetadata(With(seen, seen.mark))
           v == IF side.val = Absent THEN Scalar("c") ELSE side.val
           o == RemoveChaosMetadata(With(seen, v))
           write == /\ Is({"SecretDrift"}) /\ sweep.step = 9 /\ sweep.at = "write"
                    /\ \/ Fresh /\ obj' = o /\ sweep' = [sweep EXCEPT !.at = "drop"]
                       \/ Advance(FALSE)
                    /\ Touched(obj') /\ UNCHANGED <<side, taken>> /\ Quiet
           drop == /\ sweep.step = 9 /\ sweep.at = "drop"
                   /\ \/ side' = NoBackup /\ Advance(sweep.calm)
                      \/ side' \in {side, NoBackup} /\ Advance(FALSE)
                   /\ UNCHANGED <<obj, call, taken>> /\ Quiet
<1>1. List(9, match) \/ (Is({"ConfigMapDrift"}) /\ Put(9, Fresh, copied)) \/ write \/ drop
  BY DEF CleanConfigDrift
<1>2. 9 \in 1..11 /\ 9 \in 6..10 /\ 9 # 1
  OBVIOUS
<1>3. CASE List(9, match)
  <2>1. Is({"ConfigMapDrift"}) => ~Is({"SecretDrift"})
    BY DEF Is
  <2>2. Is({"ConfigMapDrift"}) /\ ~match => ~Marked
    BY <2>1
  <2>3. Is({"SecretDrift"}) /\ match => side.here
    OBVIOUS
  <2>4. Is({"SecretDrift"}) /\ ~match => ~(Marked /\ side.here)
    OBVIOUS
  <2> HIDE DEF match
  <2>5. Is({"ConfigMapDrift"}) /\ ~match /\ obj.here => obj.mark \in {NoMark, Corrupt}
    BY <2>2 DEF Marked, UnwrapRollbackData
  <2>6. /\ Calm' /\ (sweep'.step = 0 /\ sweep'.calm => sweep.calm /\ ~match)
        /\ sweep.step = 9 /\ Finds(9) /\ case \in Cases /\ sweep.at = "list"
        /\ UNCHANGED <<case, obj, side, parts, legit, gaps>>
    BY <1>2, <1>3, <2>3, <2>5, CalmList
  <2>7. ASSUME sweep'.step = 0, sweep'.calm, obj.mark # Corrupt PROVE Mended'
    <3>1. case.kind \in {"ConfigMapDrift", "SecretDrift"}
      BY <2>6, StepKinds
    <3>2. CASE Is({"ConfigMapDrift"})
      <4>1. Is(InPlace)
        BY <3>2 DEF Is, InPlace
      <4> QED BY <1>2, <2>1, <2>2, <2>6, <2>7, <3>2, <4>1, CalmUnmarked
    <3>3. CASE Is({"SecretDrift"})
      <4>1. gaps = {}
        BY <1>2, <2>6, <2>7, <3>3 DEF CalmInv, Calm, Alone, Is
      <4> QED BY <2>4, <2>6, <2>7, <3>3, <4>1, CalmSecretLeft
    <3> QED BY <3>1, <3>2, <3>3 DEF Is
  <2> QED BY <2>6, <2>7 DEF EndsWell
<1>4. CASE Is({"ConfigMapDrift"}) /\ Put(9, Fresh, copied)
  <2>1. case.kind = "ConfigMapDrift" /\ ~Is({"SecretDrift"}) /\ Is(InPlace) /\ CleanInv
        /\ ~Is({"NetworkPartition"})
    BY <1>4 DEF CalmInv, Is, InPlace
  <2>2. sweep.step = 9 /\ sweep.at = "write" /\ sweep.calm => gaps = {}
    BY <1>2, <1>4 DEF CalmInv, Calm, Is
  <2>3. sweep.step = 9 /\ sweep.at = "write" /\ sweep.calm =>
          Clean(case.kind, legit, copied) /\ Strips(copied) = {} /\ copied.mark = NoMark
    BY <1>2, <2>1, <2>2, RestoredClean
  <2> HIDE DEF copied
  <2>4. /\ Calm' /\ (sweep'.step = 0 /\ sweep'.calm => sweep.calm /\ obj' = copied)
        /\ sweep.step = 9 /\ sweep.at = "write" /\ UNCHANGED <<case, side, parts, legit>>
    BY <1>2, <1>4, <2>1, <2>3, CalmPut
  <2>5. sweep'.step = 0 /\ sweep'.calm => Mended'
    BY <2>1, <2>3, <2>4, EndsWith
  <2> QED BY <2>4, <2>5 DEF EndsWell
<1>5. CASE write
  <2> HIDE DEF v
  <2>1. v = IF side.val = Absent THEN Scalar("c") ELSE side.val
    BY DEF v
  <2>2. o = RemoveChaosMetadata(With(seen, v))
    OBVIOUS
  <2> HIDE DEF o
  <2> QED BY <1>5, <2>1, <2>2, CalmSecretWrite
<1>6. CASE drop
  BY <1>6, CalmSecretDrop
<1> QED BY <1>1, <1>3, <1>4, <1>5, <1>6

LEMMA CalmCRD ==
  ASSUME CalmInv, CleanCRDMutations \/ CleanCRDMutationFromResource
  PROVE  Calm' /\ EndsWell
<1> DEFINE o == RemoveChaosMetadata(
                    IF Is({"FieldMutation"}) THEN With(obj, MergeValue(obj.val, seen.mark))
                    ELSE obj)
<1>1. 10 \in 1..11 /\ 10 \in 6..10 /\ 10 # 9 /\ 10 # 1
  OBVIOUS
<1>2. List(10, Marked) \/ Put(10, obj.here, o)
  BY DEF CleanCRDMutations, CleanCRDMutationFromResource
<1>3. ASSUME CleanCovers, Finds(10), case \in Cases
      PROVE  /\ Is({"FieldMutation"}) /\ Alone /\ ~Is({"SecretDrift"}) /\ Is(InPlace)
             /\ ~(obj.val.t = "map" /\ obj.mark.t = "map")
  <2>1. Is({"FieldMutation"}) /\ case.res = "Deployment" /\ ~(obj.val.t = "map" /\ obj.mark.t = "map")
    BY <1>1, <1>3, CoveredSteps DEF CleanCovers, Is
  <2> QED BY <2>1 DEF Is, Alone, InPlace
<1>4. CASE List(10, Marked)
  <2>1. /\ Calm' /\ (sweep'.step = 0 /\ sweep'.calm => sweep.calm /\ ~Marked)
        /\ sweep.step = 10 /\ Finds(10) /\ case \in Cases /\ sweep.at = "list"
        /\ UNCHANGED <<case, obj, side, parts, legit, gaps>>
    BY <1>1, <1>4, CalmList
  <2>2. ASSUME sweep'.step = 0, sweep'.calm, CleanCovers, obj.mark # Corrupt PROVE Mended'
    BY <1>1, <1>3, <2>1, <2>2, CalmUnmarked
  <2> QED BY <2>1, <2>2 DEF EndsWell
<1>5. CASE Put(10, obj.here, o)
  <2> HIDE DEF o
  <2>1. /\ Calm' /\ (sweep'.step = 0 /\ sweep'.calm => sweep.calm /\ obj.here /\ obj' = o)
        /\ sweep.step = 10 /\ Finds(10) /\ case \in Cases /\ sweep.at = "write"
        /\ UNCHANGED <<case, side, parts, legit>>
    BY <1>1, <1>5, CalmPut
  <2>2. ASSUME sweep'.step = 0, sweep'.calm, CleanCovers PROVE Mended'
    <3>1. /\ Is({"FieldMutation"}) /\ Alone /\ ~Is({"SecretDrift"}) /\ Is(InPlace)
          /\ ~(obj.val.t = "map" /\ obj.mark.t = "map")
      BY <1>3, <2>1, <2>2
    <3>2. gaps = {} /\ ~sweep.stale
      BY <1>1, <2>1, <2>2, <3>1 DEF CalmInv, Calm
    <3>3. /\ seen \in Objects /\ seen.mark \in Marks(case.kind) /\ seen.mark \notin {NoMark, Corrupt}
          /\ Sound(case.kind, legit, seen) /\ seen.here /\ obj = seen
      BY <1>1, <2>1, <2>2, <3>2, SeenFacts DEF CalmInv, Fresh
    <3>4. case.kind \in Valued \ {"ClientFault"} /\ case.kind # "FinalizerBlock"
      BY <3>1 DEF Is, Valued, InPlace
    <3>5. seen.mark \in Values
      BY <3>1, <3>3, <3>4, MarkValues
    <3>6. GenuineIn(legit, seen.mark)
      BY <3>3, <3>4, <3>5 DEF Sound
    <3>7. MergeValue(obj.val, seen.mark) = seen.mark
      BY <3>1, <3>3 DEF MergeValue
    <3>8. o.val = seen.mark /\ o.mark = NoMark /\ o.label = "none"
      BY <3>1, <3>3, <3>5, <3>7, RestoredFacts DEF o
    <3>9. Clean(case.kind, legit, o)
      BY <3>4, <3>6, <3>8 DEF Clean, Whole
    <3> QED BY <2>1, <2>2, <3>1, <3>9, EndsWith
  <2> QED BY <2>1, <2>2 DEF EndsWell
<1> QED BY <1>2, <1>4, <1>5

LEMMA CalmResults ==
  ASSUME CalmInv, CleanResultConfigMaps
  PROVE  Calm' /\ EndsWell
<1> DEFINE drop == /\ SideIsConfigMap /\ sweep.step = 11
                   /\ Advance(sweep.calm) \/ Advance(FALSE)
                   /\ UNCHANGED <<obj, call, taken>> /\ Quiet
<1>1. DeleteMatchingResources(11) \/ drop
  BY DEF CleanResultConfigMaps
<1>2. CASE DeleteMatchingResources(11)
  BY <1>2, CalmDelete
<1>3. CASE drop
  <2>1. /\ Is({"LeaderElection", "NamespaceDeletion"}) /\ ~CleanCovers /\ case' = case /\ CleanInv
        /\ ~Is({"ConfigMapDrift"}) /\ ~Is({"NetworkPartition"})
    BY <1>3 DEF SideIsConfigMap, CleanCovers, Quiet, CalmInv, Is
  <2>2. sweep.calm => call' = Idle
    BY <1>3 DEF CalmInv, Calm
  <2>3. sweep.step # 0
    BY <1>3
  <2>4. Calm'
    <3>1. CASE Advance(sweep.calm)
      BY <2>1, <2>2, <2>3, <3>1, CalmAdvance
    <3>2. CASE Advance(FALSE)
      BY <2>1, <2>3, <3>2, CalmAdvance
    <3> QED BY <1>3, <3>1, <3>2
  <2> QED BY <2>1, <2>4 DEF EndsWell
<1> QED BY <1>1, <1>2, <1>3

LEMMA CalmClean ==
  ASSUME CalmInv, RunClean
  PROVE  Calm' /\ EndsWell
<1>1. CASE CleanNetworkPolicies \/ CleanLeases \/ CleanClusterRoles \/ CleanRoleBindings
  BY <1>1, CalmDelete
     DEF CleanNetworkPolicies, CleanLeases, CleanClusterRoles, CleanRoleBindings
<1>2. CASE CleanTTLExpired
  BY <1>2, CalmTTL
<1>3. CASE CleanWebhookConfigurations \/ CleanRBACBindings
  BY <1>3, CalmCopied
<1>4. CASE CleanOrphanedFinalizers \/ CleanFinalizerFromResource
  BY <1>4, CalmFinalizer
<1>5. CASE CleanConfigDrift
  BY <1>5, CalmDrift
<1>6. CASE CleanCRDMutations \/ CleanCRDMutationFromResource
  BY <1>6, CalmCRD
<1>7. CASE CleanResultConfigMaps
  BY <1>7, CalmResults
<1> QED BY <1>1, <1>2, <1>3, <1>4, <1>5, <1>6, <1>7 DEF RunClean

\* What a write of the framework leaves of the mark.
LEMMA WipedFacts ==
  ASSUME NEW o \in Objects, NEW v
  PROVE  RemoveChaosMetadata(With(o, v)).mark = NoMark
<1> DEFINE w == With(o, v)
<1>1. w = [here |-> o.here, val |-> v, mark |-> o.mark, label |-> o.label,
           selected |-> o.selected, term |-> o.term]
  BY DEF With, Objects
<1> HIDE DEF w
<1>2. RemoveChaosMetadata(w).mark = NoMark
  BY <1>1 DEF RemoveChaosMetadata
<1> QED BY <1>2 DEF w

\* ClientFault sets and removes label and annotation together.
LEMMA LabelledOperation ==
  ASSUME CleanInv, Labelled, Is({"ClientFault"}), Operation
  PROVE  Labelled'
<1> DEFINE bad == ApplyChaosMetadata(With(got, Map(got.val.s \cup {"fault"})), got.val)
           made == [Gone EXCEPT !.here = TRUE, !.val = Map({"fault"})]
           created == ApplyChaosMetadata(made, Created)
           back == RemoveChaosMetadata(With(got, closure.was.val))
           good == RemoveChaosMetadata(With(got, got.mark))
           look == IF obj.here THEN "write" ELSE "create"
           again == IF obj.here THEN "write" ELSE "ok"
           marked == CASE ~obj.here \/ obj.mark = NoMark -> "ok"
                       [] obj.here /\ obj.mark # NoMark ->
                            IF UnwrapRollbackData(obj.mark) THEN "write" ELSE "error"
           Labels(o) == o.here /\ o.mark # NoMark => Ours(o)
<1>a. ClientFaultInject \/ ClientFaultCleanup \/ ClientFaultRevert
  BY ByKind
<1>1. \/ Get({"inject"}, look)
      \/ Update({"inject"}, "write", bad, "ok")
      \/ Create({"inject"}, "create", created, "ok", "error")
      \/ Get({"cleanup"}, again)
      \/ DeleteTarget({"cleanup"}, "get", "ok", "ok", "error")
      \/ Update({"cleanup"}, "write", back, "ok")
      \/ Get({"revert"}, marked)
      \/ DeleteTarget({"revert"}, "write", "ok", "ok", "error")
      \/ Update({"revert"}, "write", good, "ok")
  BY <1>a DEF ClientFaultInject, ClientFaultCleanup, ClientFaultRevert, GetMarked
<1>2. Base /\ got \in Objects /\ got.val \in Values /\ obj \in Objects
  BY Basics DEF CleanInv, OpInv, Base, got, Calls, Objects
<1>3. Labels(obj)
  BY DEF Labelled
<1>4. ~Is(Deleting)
  BY DEF Is, Deleting
<1>5. Labels(Deleted(obj))
  BY <1>2, <1>4, DeletedFacts
<1>6. Labels(back) /\ Labels(good)
  BY <1>2, WipedFacts
<1>7. Labels(bad)
  <2> DEFINE v == Map(got.val.s \cup {"fault"})
  <2>1. v \in Values
    BY <1>2, ValueFields, MapValue DEF Atoms
  <2> HIDE DEF v
  <2>2. bad.label = "chaos"
    BY <1>2, <2>1, FaultyFacts DEF bad, v
  <2> QED BY <2>2 DEF Ours
<1>8. Labels(created)
  <2>1. made \in Objects
    BY GoneFacts, MapValue DEF made, Objects, Atoms
  <2> HIDE DEF made
  <2>2. created.label = "chaos"
    BY <2>1, ApplyFacts DEF created
  <2> QED BY <2>2 DEF Ours
<1>9. look \in Places /\ again \in Places /\ marked \in Places
  BY DEF Places
<1> HIDE DEF bad, made, created, back, good, look, again, marked
<1>10. ASSUME NEW STATE next, next \in Places, NEW ops, Get(ops, next)
       PROVE  obj' = obj
  BY <1>10 DEF Get
<1>11. obj' \in {obj, Deleted(obj), bad, created, back, good}
  <2>1. CASE Get({"inject"}, look) \/ Get({"cleanup"}, again) \/ Get({"revert"}, marked)
    BY <2>1, <1>9, <1>10
  <2>2. CASE \/ Update({"inject"}, "write", bad, "ok")
             \/ Update({"cleanup"}, "write", back, "ok")
             \/ Update({"revert"}, "write", good, "ok")
    BY <2>2 DEF Update, Write
  <2>3. CASE Create({"inject"}, "create", created, "ok", "error")
    BY <2>3 DEF Create, Write
  <2>4. CASE \/ DeleteTarget({"cleanup"}, "get", "ok", "ok", "error")
             \/ DeleteTarget({"revert"}, "write", "ok", "ok", "error")
    BY <2>4 DEF DeleteTarget
  <2> QED BY <1>1, <2>1, <2>2, <2>3, <2>4
<1>12. Labels(obj')
  BY <1>3, <1>5, <1>6, <1>7, <1>8, <1>11
<1> QED BY <1>12 DEF Labelled, Ours

\* Nobody else sets an annotation on a target that has none.
LEMMA LabelledEnvironment ==
  ASSUME CleanInv, Labelled, Is({"ClientFault"}), Environment
  PROVE  Labelled'
<1> DEFINE Labels(o) == o.here /\ o.mark # NoMark => Ours(o)
<1>1. Base /\ obj \in Objects
  BY Basics DEF CleanInv, OpInv
<1>2. Labels(obj)
  BY DEF Labelled
<1>3. ~Is(Deleting) /\ ~Is({"FinalizerBlock"})
  BY DEF Is, Deleting
<1>4. Labels(Deleted(obj)) /\ Labels(Gone)
  BY <1>1, <1>3, DeletedFacts, GoneFacts
<1>5. CASE Edit
  <2>1. PICK v : obj' = With(obj, v)
    BY <1>5, <1>3 DEF Edit
  <2>2. obj'.here = obj.here /\ obj'.mark = obj.mark /\ obj'.label = obj.label
    BY <2>1, <1>1 DEF With, Objects
  <2>3. Labels(obj')
    BY <1>2, <2>2 DEF Ours
  <2> QED BY <2>3 DEF Labelled, Ours
<1>6. CASE Remove
  <2>1. obj' = Deleted(obj)
    BY <1>6, <1>3 DEF Remove
  <2> QED BY <2>1, <1>4 DEF Labelled, Ours
<1>7. CASE Recreate
  <2>1. obj'.mark = NoMark
    BY <1>7 DEF Recreate, Gone
  <2> QED BY <2>1 DEF Labelled
<1>8. CASE Tamper
  <2>1. obj.mark # NoMark /\ obj' = [obj EXCEPT !.mark = Corrupt]
    BY <1>8 DEF Tamper
  <2>2. obj'.here = obj.here /\ obj'.label = obj.label
    BY <2>1, <1>1 DEF Objects
  <2>3. Labels(obj')
    BY <1>2, <2>1, <2>2 DEF Ours
  <2> QED BY <2>3 DEF Labelled, Ours
<1>9. CASE Relabel
  <2>1. obj' = [obj EXCEPT !.selected = FALSE]
    BY <1>9 DEF Relabel
  <2>2. obj'.here = obj.here /\ obj'.label = obj.label /\ obj'.mark = obj.mark
    BY <2>1, <1>1 DEF Objects
  <2>3. Labels(obj')
    BY <1>2, <2>2 DEF Ours
  <2> QED BY <2>3 DEF Labelled, Ours
<1>10. CASE Vanish
  <2>1. obj' = Gone
    BY <1>10 DEF Vanish
  <2> QED BY <2>1, <1>4 DEF Labelled, Ours
<1> QED BY <1>5, <1>6, <1>7, <1>8, <1>9, <1>10 DEF Environment

\* A sweep takes a labelled ConfigMap away whole.
LEMMA LabelledSweep ==
  ASSUME CleanInv, Labelled, Is({"ClientFault"}), RunClean
  PROVE  Labelled'
<1> DEFINE Labels(o) == o.here /\ o.mark # NoMark => Ours(o)
<1>1. sweep \in Sweeps /\ case \in Cases /\ (sweep.step # 0 => Finds(sweep.step))
  BY Basics DEF CleanInv, OpInv, SweepInv, SweepKnown
<1>2. sweep.step # 0 => sweep.step = 11
  <2>1. sweep.step \in 0..11
    BY <1>1 DEF Sweeps
  <2> QED BY <1>1, <2>1, CoveredSteps
<1> DEFINE At(n) == sweep.step = n
<1>3. CleanResultConfigMaps
  <2>1. CleanNetworkPolicies => At(1)
    BY DEF CleanNetworkPolicies, DeleteMatchingResources, List, Put
  <2>2. CleanLeases => At(2)
    BY DEF CleanLeases, DeleteMatchingResources, List, Put
  <2>3. CleanClusterRoles => At(3)
    BY DEF CleanClusterRoles, DeleteMatchingResources, List, Put
  <2>4. CleanRoleBindings => At(4)
    BY DEF CleanRoleBindings, DeleteMatchingResources, List, Put
  <2>5. CleanTTLExpired => At(5)
    BY DEF CleanTTLExpired, List, Put
  <2>6. CleanWebhookConfigurations => At(6)
    BY DEF CleanWebhookConfigurations, List, Put
  <2>7. CleanRBACBindings => At(7)
    BY DEF CleanRBACBindings, List, Put
  <2>8. CleanOrphanedFinalizers \/ CleanFinalizerFromResource => At(8)
    BY DEF CleanOrphanedFinalizers, CleanFinalizerFromResource, List, Put
  <2>9. CleanConfigDrift => At(9)
    BY DEF CleanConfigDrift, List, Put
  <2>10. CleanCRDMutations \/ CleanCRDMutationFromResource => At(10)
    BY DEF CleanCRDMutations, CleanCRDMutationFromResource, List, Put
  <2>11. ~At(1) /\ ~At(2) /\ ~At(3) /\ ~At(4) /\ ~At(5) /\ ~At(6) /\ ~At(7) /\ ~At(8)
         /\ ~At(9) /\ ~At(10)
    BY <1>2
  <2> HIDE DEF At
  <2> QED BY <2>1, <2>2, <2>3, <2>4, <2>5, <2>6, <2>7, <2>8, <2>9, <2>10, <2>11 DEF RunClean
<1>4. DeleteMatchingResources(11) \/ obj' = obj
  BY <1>3 DEF CleanResultConfigMaps
<1>5. obj' \in {obj, Gone}
  <2>1. ~Is({"FinalizerBlock"})
    BY DEF Is
  <2> QED BY <1>4, <2>1 DEF DeleteMatchingResources, List, Put
<1>6. Labels(obj) /\ Labels(Gone)
  BY GoneFacts DEF Labelled
<1>7. Labels(obj')
  BY <1>5, <1>6
<1> QED BY <1>7 DEF Labelled, Ours

LEMMA LabelledStep ==
  ASSUME CleanInv, Labelled, CleanNext
  PROVE  Labelled'
<1> SUFFICES ASSUME Is({"ClientFault"})' PROVE Labelled'
  BY DEF Labelled
<1>1. Promised
  BY CleanStep
<1>2. Is({"ClientFault"})
  BY <1>1 DEF Promised, Grows, Is
<1>3. ASSUME obj' = obj PROVE Labelled'
  BY <1>2, <1>3 DEF Labelled, Ours
<1>4. CASE StartSweep
  BY <1>3, <1>4 DEF StartSweep, vars
<1>5. CASE RunClean
  BY <1>2, <1>5, LabelledSweep
<1>6. CASE Beside
  <2>1. CASE Operation
    BY <1>2, <2>1, LabelledOperation
  <2>2. CASE Environment
    BY <1>2, <2>2, LabelledEnvironment
  <2>3. CASE Finish \/ Crash \/ \E op \in {"inject"} \cup Undo : Start(op)
    BY <1>3, <2>3 DEF Finish, Crash, Start
  <2> QED BY <1>6, <2>1, <2>2, <2>3 DEF Beside, Next
<1> QED BY <1>4, <1>5, <1>6 DEF CleanNext

LEMMA CalmStep ==
  ASSUME CalmInv, CleanNext
  PROVE  CalmInv' /\ EndsWell
<1>1. CleanInv'
  BY CleanStep DEF CalmInv, Promised
<1>2. Labelled'
  BY LabelledStep DEF CalmInv
<1>3. Calm' /\ EndsWell
  BY CalmStart, CalmClean, CalmBeside DEF CleanNext
<1> QED BY <1>1, <1>2, <1>3 DEF CalmInv

LEMMA CalmStutter ==
  ASSUME CalmInv, UNCHANGED cleanVars
  PROVE  CalmInv' /\ EndsWell
<1>1. CleanInv'
  BY CleanStutter DEF CalmInv
<1>2. UNCHANGED <<case, obj, side, call, legit, gaps>> /\ sweep' = sweep
  BY DEF cleanVars, vars, history
<1>3. Labelled' /\ Calm'
  BY <1>2 DEF CalmInv, Labelled, Calm, Alone, Is, Ours
<1>4. EndsWell
  BY <1>2 DEF EndsWell
<1> QED BY <1>1, <1>3, <1>4 DEF CalmInv

LEMMA CalmInit ==
  ASSUME CleanInit
  PROVE  CalmInv
<1>1. CleanInv
  BY CleanInitStep
<1>2. sweep.step = 0
  BY DEF CleanInit, Rest
<1>3. obj.mark = NoMark
  BY DEF CleanInit, Init, Gone
<1> QED BY <1>1, <1>2, <1>3 DEF CalmInv, Calm, Labelled

\* An emergency stop that nothing interferes with restores the targets it takes
\* care of, whatever state a crash, or an injection or revert that was cut
\* short, has left them in.
THEOREM SweepsRestore == CleanSpec => CleanRestores
<1>1. CleanInit => CalmInv
  BY CalmInit
<1>2. CalmInv /\ [CleanNext]_cleanVars => CalmInv' /\ EndsWell
  BY CalmStep, CalmStutter
<1>3. CalmInv /\ [CleanNext]_cleanVars =>
        [sweep.step # 0 /\ sweep'.step = 0 /\ sweep'.calm /\ CleanCovers
           /\ obj.mark # Corrupt
           => IF Is({"SecretDrift"}) THEN (obj.here => Genuine(obj.val))'
              ELSE Restored']_cleanVars
  <2> SUFFICES ASSUME CalmInv, [CleanNext]_cleanVars, sweep.step # 0, sweep'.step = 0, sweep'.calm,
                      CleanCovers, obj.mark # Corrupt
               PROVE  IF Is({"SecretDrift"}) THEN (obj.here => Genuine(obj.val))' ELSE Restored'
    OBVIOUS
  <2>1. case' = case
    BY CleanStep DEF CalmInv, Promised, Grows, cleanVars, vars
  <2>2. Mended'
    BY <1>2 DEF EndsWell
  <2> QED BY <2>1, <2>2 DEF Mended, Is
<1> QED BY <1>1, <1>2, <1>3, PTL DEF CleanSpec, CleanRestores
=============================================================================
