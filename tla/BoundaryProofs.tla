--------------------------- MODULE BoundaryProofs ---------------------------
(***************************************************************************)
(* The front ends agree on every package, whatever its two documents hold, *)
(* and none of them softens another version of the format.  Parser and     *)
(* schemas ask for the same, and a manifest that is taken is written       *)
(* faithfully.                                                             *)
(***************************************************************************)
EXTENDS Boundary, FiniteSetTheorems, WellFoundedInduction, TLAPS

\* How far a front end can be, and what it can give.
Stages == {"read", "parse", "work", "answer", "end"}

Answers == Output \cup {Pending, "exit 0", "exit 1", "exit 2", "exit 101",
                         "UnknownFormatVersionError", "HmxError"}

\* The package is refused: by every front end, and by nothing but its documents.
ToRefuse ==
  \/ manifest = Unreadable
  \/ FromJson(manifest) # "none"
  \/ verb = "describe" /\ RegistryArtifacts # {} /\ ~GoodRegistry

\* What front end v has found out before each stage, and what it may answer.
FoundOut(v) ==
  /\ stage[v] \in Stages
  /\ stage[v] # "end" => answer[v] = Pending
  /\ stage[v] = "parse" => manifest # Unreadable
  /\ stage[v] = "work" => manifest # Unreadable /\ FromJson(manifest) = "none"
  /\ stage[v] = "answer" => ~ToRefuse
  /\ stage[v] = "end" =>
       IF ToRefuse
       THEN answer[v] = IF v = "hmx" THEN "exit 2"
                        ELSE IF manifest # Unreadable /\ FromJson(manifest) = "UnknownFormatVersion"
                        THEN "UnknownFormatVersionError" ELSE "HmxError"
       ELSE answer[v] \in IF v = "hmx" THEN {ExitCode, "exit 101"} ELSE {Document}

\* The front ends share nothing but the package, so that one of them says what the
\* others have found out.
BoundaryInv ==
  /\ verb \in {"validate", "describe"}
  /\ stage \in [FrontEnds -> Stages]
  /\ answer \in [FrontEnds -> Answers]
  /\ \A v \in FrontEnds : FoundOut(v)
  /\ manifest # Unreadable => IsManifestText(manifest)
  /\ registry # Unreadable => IsRegistryText(registry)

-----------------------------------------------------------------------------
\* A step leaves the refusal and the document what they are.
LEMMA SamePackage ==
  ASSUME UNCHANGED package
  PROVE  (ToRefuse' = ToRefuse) /\ (Document' = Document) /\ (ExitCode' = ExitCode)
BY DEF package, ToRefuse, Document, ExitCode, Conformant, RegistryArtifacts, GoodRegistry

\* What front end v does changes nothing of the other ones.
LEMMA OwnStep ==
  ASSUME BoundaryInv, UNCHANGED package, NEW v \in FrontEnds, NEW next, NEW given,
         stage' = [stage EXCEPT ![v] = next], answer' = [answer EXCEPT ![v] = given],
         next \in Stages,
         given \in Answers,
         FoundOut(v)'
  PROVE  BoundaryInv'
<1>1. ASSUME NEW w \in FrontEnds, w # v
      PROVE  FoundOut(w)'
  <2>1. stage'[w] = stage[w] /\ answer'[w] = answer[w]
    BY <1>1 DEF BoundaryInv
  <2>2. (ToRefuse' = ToRefuse) /\ (Document' = Document) /\ (ExitCode' = ExitCode)
    BY SamePackage
  <2> QED
    BY <1>1, <2>1, <2>2 DEF BoundaryInv, FoundOut, Stages, package
<1>2. stage' \in [FrontEnds -> Stages]
  BY DEF BoundaryInv
<1>3. answer' \in [FrontEnds -> Answers]
  BY DEF BoundaryInv
<1> QED
  BY <1>1, <1>2, <1>3 DEF BoundaryInv, package

\* Refusing is right, of a package to refuse.
LEMMA RefusingKeeps ==
  ASSUME BoundaryInv, NEW v \in FrontEnds, NEW error, Refuse(v, error), ToRefuse,
         error = "UnknownFormatVersion" <=>
           manifest # Unreadable /\ FromJson(manifest) = "UnknownFormatVersion"
  PROVE  BoundaryInv'
<1>1. stage'[v] = "end" /\ answer'[v] = Refusal(v, error)
  BY DEF Refuse, To, BoundaryInv
<1>2. ToRefuse' /\ UNCHANGED package
  BY SamePackage DEF Refuse
<1>3. FoundOut(v)'
  BY <1>1, <1>2 DEF FoundOut, Stages, Refusal, package
<1>4. Refusal(v, error) \in {"exit 2", "UnknownFormatVersionError", "HmxError"}
  BY DEF Refusal
<1> QED
  BY <1>2, <1>3, <1>4, OwnStep DEF Refuse, To, Stages, Answers

\* Going on to the next stage is right, when what it needs has been found out.
LEMMA GoingOnKeeps ==
  ASSUME BoundaryInv, NEW v \in FrontEnds, NEW next \in {"parse", "work", "answer"},
         stage[v] # "end", To(v, next), UNCHANGED <<package, answer>>,
         manifest # Unreadable,
         next # "parse" => FromJson(manifest) = "none",
         next = "answer" => ~ToRefuse
  PROVE  BoundaryInv'
<1>1. stage'[v] = next /\ answer'[v] = Pending
  BY DEF To, BoundaryInv, FoundOut, Stages
<1>2. FoundOut(v)'
  <2>1. UNCHANGED package
    OBVIOUS
  <2>2. (ToRefuse' = ToRefuse) /\ manifest' = manifest
    BY <2>1, SamePackage DEF package
  <2> QED
    BY <1>1, <2>2 DEF FoundOut, Stages
<1>3. answer' = [answer EXCEPT ![v] = Pending]
  BY <1>1 DEF BoundaryInv
<1> QED
  BY <1>2, <1>3, OwnStep DEF To, Stages, Answers

\* What a front end has found out stays true, and its answer follows from it:
\* every answer is determined by the package.
THEOREM BoundaryInvHolds == Spec => []BoundaryInv
<1>1. ASSUME Init
      PROVE  BoundaryInv
  BY <1>1, PackagesAssumption DEF Init, BoundaryInv, FoundOut, Stages, Answers
<1>2. ASSUME BoundaryInv, [Next]_vars
      PROVE  BoundaryInv'
  <2>1. ASSUME NEW v \in FrontEnds, Read(v)
        PROVE  BoundaryInv'
    <3>1. CASE manifest # Unreadable
      BY <1>2, <2>1, <3>1, GoingOnKeeps DEF Read
    <3>2. CASE manifest = Unreadable
      BY <1>2, <2>1, <3>2, RefusingKeeps DEF Read, ToRefuse
    <3> QED
      BY <3>1, <3>2
  <2>2. ASSUME NEW v \in FrontEnds, Parse(v)
        PROVE  BoundaryInv'
    <3>1. manifest # Unreadable
      BY <1>2, <2>2 DEF BoundaryInv, FoundOut, Stages, Parse
    <3>2. CASE FromJson(manifest) = "none"
      BY <1>2, <2>2, <3>1, <3>2, GoingOnKeeps DEF Parse
    <3>3. CASE FromJson(manifest) # "none"
      BY <1>2, <2>2, <3>1, <3>3, RefusingKeeps DEF Parse, ToRefuse
    <3> QED
      BY <3>2, <3>3
  <2>3. ASSUME NEW v \in FrontEnds, Describe(v)
        PROVE  BoundaryInv'
    <3>1. manifest # Unreadable /\ FromJson(manifest) = "none"
      BY <1>2, <2>3 DEF BoundaryInv, FoundOut, Stages, Describe
    <3>2. CASE RegistryArtifacts = {} \/ GoodRegistry
      BY <1>2, <2>3, <3>1, <3>2, GoingOnKeeps DEF Describe, ToRefuse
    <3>3. CASE ~(RegistryArtifacts = {} \/ GoodRegistry)
      BY <1>2, <2>3, <3>1, <3>3, RefusingKeeps DEF Describe, ToRefuse
    <3> QED
      BY <3>2, <3>3
  <2>4. ASSUME NEW v \in FrontEnds, Validate(v)
        PROVE  BoundaryInv'
    <3>1. manifest # Unreadable /\ FromJson(manifest) = "none"
      BY <1>2, <2>4 DEF BoundaryInv, FoundOut, Stages, Validate
    <3> QED
      BY <1>2, <2>4, <3>1, GoingOnKeeps DEF Validate, ToRefuse
  <2>5. ASSUME NEW v \in FrontEnds, Answer(v)
        PROVE  BoundaryInv'
    <3>1. ~ToRefuse
      BY <1>2, <2>5 DEF BoundaryInv, FoundOut, Stages, Answer
    <3>2. /\ ExitCode \in {"exit 0", "exit 1"}
          /\ Document \in Output
      BY DEF ExitCode, Document, Output
    <3>3. PICK given : /\ answer' = [answer EXCEPT ![v] = given]
                       /\ given \in IF v = "hmx" THEN {ExitCode, "exit 101"} ELSE {Document}
      BY <2>5 DEF Answer
    <3>4. stage'[v] = "end" /\ answer'[v] = given
      BY <1>2, <2>5, <3>3 DEF Answer, To, BoundaryInv
    <3>5. FoundOut(v)'
      <4>1. (ToRefuse' = ToRefuse) /\ (Document' = Document) /\ (ExitCode' = ExitCode)
        BY <2>5, SamePackage DEF Answer
      <4> QED
        BY <3>1, <3>3, <3>4, <4>1 DEF FoundOut, Stages
    <3> QED
      BY <1>2, <2>5, <3>2, <3>3, <3>5, OwnStep DEF Answer, To, Stages, Answers
  <2>6. CASE UNCHANGED vars
    <3>1. UNCHANGED package /\ UNCHANGED <<stage, answer>>
      BY <2>6 DEF vars, package
    <3>2. (ToRefuse' = ToRefuse) /\ (Document' = Document) /\ (ExitCode' = ExitCode)
      BY <3>1, SamePackage
    <3> QED
      BY <1>2, <3>1, <3>2 DEF BoundaryInv, FoundOut, Stages, package
  <2> QED
    BY <1>2, <2>1, <2>2, <2>3, <2>4, <2>5, <2>6 DEF Next
<1> QED
  BY <1>1, <1>2, PTL DEF Spec

\* The command and the binding agree on every package.
THEOREM FrontEndsAlwaysAgree == Spec => []FrontEndsAgree
<1>1. ASSUME BoundaryInv
      PROVE  FrontEndsAgree
  <2>1. ASSUME Ended("hmx"), Ended("python"), answer["hmx"] # "exit 101"
        PROVE  /\ answer["hmx"] = "exit 2" <=> answer["python"] \notin Output
               /\ answer["hmx"] = "exit 1" <=> answer["python"] = "nonconformant report"
    <3>1. FoundOut("hmx") /\ FoundOut("python")
      BY <1>1 DEF BoundaryInv, FrontEnds
    <3>2. CASE ToRefuse
      BY <2>1, <3>1, <3>2 DEF FoundOut, Ended, Output
    <3>3. CASE ~ToRefuse
      <4>1. answer["hmx"] = ExitCode /\ answer["python"] = Document
        BY <2>1, <3>1, <3>3 DEF FoundOut, Ended
      <4> QED
        BY <4>1 DEF ExitCode, Document, Output
    <3> QED
      BY <3>2, <3>3
  <2> QED
    BY <2>1 DEF FrontEndsAgree
<1> QED
  BY <1>1, BoundaryInvHolds, PTL

\* No front end accepts a manifest of another version.
THEOREM OtherVersionsAreRefused == Spec => []HardCut
<1>1. ASSUME BoundaryInv, NEW v \in FrontEnds,
             answer[v] \in Output \cup {"exit 0", "exit 1"}
      PROVE  manifest.at.format_version = Version
  <2>1. ~ToRefuse
    BY <1>1 DEF BoundaryInv, FoundOut, Output, Pending
  <2> QED
    BY <2>1 DEF ToRefuse, FromJson
<1>2. ASSUME BoundaryInv
      PROVE  HardCut
  BY <1>1, <1>2 DEF HardCut, Accepted
<1> QED
  BY <1>2, BoundaryInvHolds, PTL

-----------------------------------------------------------------------------
(***************************************************************************)
(* Sequences and the errors in them.                                       *)
(***************************************************************************)

\* A set of natural numbers that is not empty has a smallest one.
LEMMA SmallestNumber ==
  ASSUME NEW S \in SUBSET Nat, S # {}
  PROVE  Min(S) \in S /\ \A n \in S : Min(S) <= n
<1> DEFINE R == {ss \in Nat \X Nat : ss[1] < ss[2]}
<1>1. IsWellFoundedOn(R, Nat)
  BY NatLessThanWellFounded DEF OpToRel
<1>2. PICK n \in S : \A k \in S : ~(<<k, n>> \in R)
  BY <1>1, WFMin
<1>3. \A k \in S : ~(k < n)
  BY <1>2
<1>4. \A k \in S : n <= k
  <2> HIDE DEF R
  <2> QED
    BY <1>3
<1> QED
  BY <1>4 DEF Min

\* The first error of a list, if there is one, is one of its elements.
LEMMA FirstErrorIsOne ==
  ASSUME NEW N \in Nat, NEW errors, errors = [n \in 1 .. N |-> errors[n]]
  PROVE  FirstError(errors) = "none" <=> \A n \in 1 .. N : errors[n] = "none"
<1> DEFINE Values == {errors[n] : n \in 1 .. N}
           Wrong == {n \in 1 .. Len(errors) : errors[n] # "none"}
<1>1. Len(errors) = N
  <2>1. errors \in [1 .. N -> Values]
    OBVIOUS
  <2> HIDE DEF Values
  <2> QED
    BY <2>1
<1>2. SelectInSeq(errors, LAMBDA error : error # "none") = IF Wrong # {} THEN Min(Wrong) ELSE 0
  BY DEF SelectInSeq
<1>3. CASE Wrong = {}
  BY <1>1, <1>2, <1>3 DEF FirstError
<1>4. CASE Wrong # {}
  <2>1. Wrong \in SUBSET Nat /\ 0 \notin Wrong
    BY <1>1
  <2>2. Min(Wrong) \in Wrong /\ Min(Wrong) # 0
    <3> HIDE DEF Wrong
    <3> QED
      BY <1>4, <2>1, SmallestNumber
  <2>3. FirstError(errors) = errors[Min(Wrong)]
    <3> HIDE DEF Wrong
    <3> QED
      BY <1>2, <1>4, <2>2 DEF FirstError
  <2>4. errors[Min(Wrong)] # "none" /\ Min(Wrong) \in 1 .. N
    BY <1>1, <2>2
  <2> QED
    BY <2>3, <2>4
<1> QED
  BY <1>3, <1>4

\* The places of a sequence.
LEMMA SequencePlaces ==
  ASSUME NEW s, IsSequence(s)
  PROVE  DOMAIN s = 1 .. Len(s) /\ Len(s) \in Nat
<1> DEFINE Values == {s[k] : k \in DOMAIN s}
<1>1. s \in Seq(Values)
  BY DEF IsSequence
<1> HIDE DEF Values
<1> QED
  BY <1>1

\* So of the errors of a list of objects.
LEMMA ElementsErrors ==
  ASSUME NEW objects, IsSequence(objects), NEW kind
  PROVE  Elements(objects, kind) = "none" <=>
           \A n \in DOMAIN objects : Flat(objects[n], kind) = "none"
<1> DEFINE errors == [n \in DOMAIN objects |-> Flat(objects[n], kind)]
<1>1. DOMAIN objects = 1 .. Len(objects) /\ Len(objects) \in Nat
  BY SequencePlaces
<1>2. errors = [n \in 1 .. Len(objects) |-> errors[n]]
  BY <1>1
<1>3. FirstError(errors) = "none" <=> \A n \in 1 .. Len(objects) : errors[n] = "none"
  <2> HIDE DEF errors
  <2> QED
    BY <1>1, <1>2, FirstErrorIsOne
<1> QED
  BY <1>1, <1>3 DEF Elements

-----------------------------------------------------------------------------
(***************************************************************************)
(* Objects: what the parser takes, and what the schemas ask for.           *)
(***************************************************************************)

\* What deserialization finds wrong with an object, key by key.
KeyErrors(object, kind, inner) ==
  LET keys == Spelled(object) IN
  [n \in DOMAIN keys |->
    IF keys[n] \notin Keys(kind) THEN "extra"
    ELSE IF \E k \in 1 .. n - 1 : keys[k] = keys[n] THEN "malformed"
    ELSE IF object.at[keys[n]] = Mistyped THEN "malformed"
    ELSE IF object.at[keys[n]] = None
         THEN IF keys[n] \in Required(kind) THEN "malformed" ELSE "none"
    ELSE IF ~Fits(keys[n], object.at[keys[n]]) THEN "malformed"
    ELSE inner[keys[n]]]

\* A value that is taken under a key.
Taken(key, value) == value # Mistyped /\ IsNumber(key, value) /\ Fits(key, value)

\* Most keys have no numbers.
LEMMA NoNumbers ==
  ASSUME NEW key, key \notin Integral \cup Real \cup {"external_ids"}
  PROVE  \A value : IsNumber(key, value) /\ Fits(key, value)
BY DEF IsNumber, Fits

\* An object, or an array in its place, that is taken has all the required keys,
\* no other ones, none of them twice, and values of the right types that are taken
\* themselves.
LEMMA TakenKeys ==
  ASSUME NEW object, NEW kind, NEW inner, IsObject(object),
         Deserialized(object, kind, inner) = "none"
  PROVE  /\ object # Mistyped
         /\ IsInjective(Spelled(object))
         /\ Required(kind) \subseteq Range(Spelled(object))
         /\ Range(Spelled(object)) \subseteq Keys(kind)
         /\ \A key \in Range(Spelled(object)) :
              /\ object.at[key] # Mistyped
              /\ object.at[key] = None => key \in Optional(kind)
              /\ object.at[key] # None => Taken(key, object.at[key]) /\ inner[key] = "none"
<1> DEFINE keys == Spelled(object)
           errors == KeyErrors(object, kind, inner)
<1>1. IsSequence(keys) /\ DOMAIN keys = 1 .. Len(keys) /\ Len(keys) \in Nat
  BY SequencePlaces DEF IsObject
<1>2. object # Mistyped /\ FirstError(errors) = "none"
  BY DEF Deserialized, KeyErrors
<1>3. Keys(kind) \ Range(keys) \subseteq Optional(kind)
  BY <1>2 DEF Deserialized, KeyErrors
<1>4. errors = [n \in 1 .. Len(keys) |-> errors[n]]
  BY <1>1 DEF KeyErrors
<1>5. \A n \in DOMAIN keys : errors[n] = "none"
  <2> HIDE DEF errors, keys
  <2> QED
    BY <1>1, <1>2, <1>4, FirstErrorIsOne
<1>6. ASSUME NEW n \in DOMAIN keys
      PROVE  /\ keys[n] \in Keys(kind)
             /\ \A k \in 1 .. n - 1 : keys[k] # keys[n]
             /\ object.at[keys[n]] # Mistyped
             /\ object.at[keys[n]] = None => keys[n] \notin Required(kind)
             /\ object.at[keys[n]] # None =>
                  Taken(keys[n], object.at[keys[n]]) /\ inner[keys[n]] = "none"
  <2>1. errors[n] = "none"
    BY <1>5
  <2>2. keys[n] \in DOMAIN object.at
    BY DEF IsObject, Range
  <2> QED
    BY <2>1, <2>2 DEF KeyErrors, Taken, IsObject
<1>7. IsInjective(keys)
  <2>1. ASSUME NEW a \in DOMAIN keys, NEW b \in DOMAIN keys, a < b
        PROVE  keys[a] # keys[b]
    BY <1>1, <1>6, <2>1
  <2> HIDE DEF keys
  <2> QED
    BY <1>1, <2>1 DEF IsInjective
<1> QED
  BY <1>2, <1>3, <1>6, <1>7 DEF Range, Required

\* The same of an object in one piece.
LEMMA TakenObject ==
  ASSUME NEW object, NEW kind, NEW inner, IsObject(object), ~IsArray(object),
         Deserialized(object, kind, inner) = "none"
  PROVE  /\ object # Mistyped
         /\ IsInjective(object.keys)
         /\ Required(kind) \subseteq Range(object.keys)
         /\ Range(object.keys) \subseteq Keys(kind)
         /\ \A key \in Range(object.keys) :
              /\ object.at[key] # Mistyped
              /\ object.at[key] = None => key \in Optional(kind)
              /\ object.at[key] # None => Taken(key, object.at[key]) /\ inner[key] = "none"
<1>1. Spelled(object) = object.keys
  BY DEF Spelled
<1> QED
  BY <1>1, TakenKeys

\* An object of the right shape is taken, when the values in it are.
LEMMA ShapedIsTaken ==
  ASSUME NEW object, NEW kind, NEW inner, IsObject(object), Shaped(object, kind),
         \A key \in Range(object.keys) :
           Fits(key, object.at[key]) /\ inner[key] = "none"
  PROVE  Deserialized(object, kind, inner) = "none"
<1> DEFINE keys == object.keys
           errors == KeyErrors(object, kind, inner)
<1>1. object # Mistyped /\ ~IsArray(object) /\ Spelled(object) = keys
  BY DEF Shaped, Spelled
<1>2. IsSequence(keys) /\ DOMAIN keys = 1 .. Len(keys) /\ Len(keys) \in Nat
  BY <1>1, SequencePlaces DEF IsObject
<1>3. errors = [n \in 1 .. Len(keys) |-> errors[n]]
  BY <1>1, <1>2 DEF KeyErrors
<1>4. ASSUME NEW n \in DOMAIN keys
      PROVE  errors[n] = "none"
  <2>1. keys[n] \in Range(keys)
    BY DEF Range
  <2>2. ~ \E k \in 1 .. n - 1 : keys[k] = keys[n]
    BY <1>2 DEF Shaped, IsInjective
  <2> HIDE DEF keys
  <2> QED
    BY <1>1, <2>1, <2>2 DEF KeyErrors, Shaped, keys
<1>5. FirstError(errors) = "none"
  <2> HIDE DEF errors, keys
  <2> QED
    BY <1>2, <1>3, <1>4, FirstErrorIsOne
<1>6. Keys(kind) \ Range(keys) \subseteq Optional(kind)
  BY DEF Shaped, Required
<1> QED
  BY <1>1, <1>5, <1>6 DEF Deserialized, KeyErrors

-----------------------------------------------------------------------------
(***************************************************************************)
(* From the parser to the schemas.                                         *)
(***************************************************************************)

\* The keys of the objects.
LEMMA KeysOfObjects ==
  /\ Keys("manifest") = {"format_version", "name", "created_at", "producer",
                         "producer_version", "package_kind", "crs", "grid", "domains",
                         "mappings", "artifacts"}
  /\ Keys("grid") = {"crs", "extent", "cell_size", "nx", "ny", "origin"}
  /\ Keys("extent") = {"xmin", "ymin", "xmax", "ymax"}
  /\ Keys("domain") = {"id", "entity_count", "index_base", "external_ids"}
  /\ Keys("mapping") = {"purpose", "source_domain", "target_domain", "variable",
                        "artifact_role"}
  /\ Keys("artifact") = {"role", "path", "format", "sha256", "size_bytes", "crs", "domain",
                         "variable", "unit", "time_meaning", "interval_seconds", "row_count",
                         "first_step_index", "last_step_index"}
  /\ Keys("registry") = {"registry_version", "fields"}
  /\ Keys("field") = {"id", "domain", "quantity", "units", "value_type", "time_meaning",
                      "role", "conservation_class", "extent", "layer_count"}
BY DEF Keys, Declared, Range

\* The keys that an artifact must have.
LEMMA RequiredOfArtifacts == Required("artifact") = {"role", "path", "format", "sha256"}
<1> DEFINE keys == Declared["artifact"]
<1>1. keys = <<"role", "path", "format", "sha256", "size_bytes", "crs", "domain",
               "variable", "unit", "time_meaning", "interval_seconds", "row_count",
               "first_step_index", "last_step_index">>
  BY DEF Declared
<1>2. SubSeq(keys, 5, 14) = [n \in 1 .. 10 |-> keys[n + 4]]
  BY <1>1
<1>3. Range(SubSeq(keys, 5, 14)) = {keys[n] : n \in 5 .. 14}
  <2> HIDE DEF keys
  <2> QED
    BY <1>2 DEF Range
<1>4. Optional("artifact") = Keys("artifact") \ {"role", "path", "format", "sha256"}
  BY KeysOfObjects, <1>1, <1>3 DEF Optional
<1> QED
  BY <1>4, KeysOfObjects DEF Required

\* What is taken without an array or a null has the shape that its schema wants.
LEMMA TakenIsShaped ==
  ASSUME NEW object, NEW kind, NEW inner, IsObject(object), ~IsArray(object),
         Deserialized(object, kind, inner) = "none",
         \A key \in DOMAIN object.at : key \in Optional(kind) => object.at[key] # None
  PROVE  Shaped(object, kind)
<1>1. DOMAIN object.at = Range(object.keys)
  BY DEF IsObject, Spelled
<1> QED
  BY <1>1, TakenObject DEF Shaped

\* The numbers of a flat object that is taken are in range.
LEMMA FlatIsInRange ==
  ASSUME NEW object, NEW kind, IsObject(object), Flat(object, kind) = "none",
         \A key \in DOMAIN object.at : object.at[key] # None
  PROVE  /\ \A key \in DOMAIN object.at : Taken(key, object.at[key])
         /\ \A key \in Integral \cap DOMAIN object.at :
              object.at[key] \in Nat /\ AtLeast(0, object.at[key])
         /\ "external_ids" \in DOMAIN object.at =>
              \A n \in DOMAIN object.at.external_ids : object.at.external_ids[n] \in Ids
<1>1. \A key \in DOMAIN object.at : Taken(key, object.at[key])
  BY TakenKeys DEF Flat, IsObject
<1>2. \A key \in Integral : Bound(key) \in Nat
  BY DocumentsAssumption DEF Bound
<1>3. ASSUME NEW key \in Integral \cap DOMAIN object.at
      PROVE  object.at[key] \in Nat /\ AtLeast(0, object.at[key])
  <2>1. object.at[key] \in 0 .. Bound(key)
    BY <1>1 DEF Taken, Fits
  <2> QED
    BY <1>2, <2>1 DEF AtLeast
<1> QED
  BY <1>1, <1>3 DEF Taken, Fits

\* The domains of a manifest.
LEMMA DomainMeetsSchema ==
  ASSUME NEW domain, IsObject(domain), ~IsArray(domain), Flat(domain, "domain") = "none",
         \A key \in DOMAIN domain.at : domain.at[key] # None,
         ConvertDomain(domain)
  PROVE  DomainSchema(domain)
<1>1. Shaped(domain, "domain")
  BY TakenIsShaped DEF Flat
<1>2. {"id", "entity_count"} \subseteq Required("domain")
  BY KeysOfObjects DEF Required, Optional
<1>3. "id" \in DOMAIN domain.at /\ "entity_count" \in DOMAIN domain.at
      /\ DOMAIN domain.at = Range(domain.keys)
  BY <1>1, <1>2 DEF Shaped, IsObject, Spelled
<1>4. AtLeast(0, domain.at.entity_count)
  BY <1>3, FlatIsInRange DEF Integral
<1>5. ASSUME "external_ids" \in Range(domain.keys)
      PROVE  Mistyped \notin Range(domain.at.external_ids)
  <2>1. \A n \in DOMAIN domain.at.external_ids : domain.at.external_ids[n] \in Ids
    BY <1>3, <1>5, FlatIsInRange
  <2>2. Mistyped \notin Ids
    <3>1. Mistyped \notin Int
      BY DocumentsAssumption
    <3>2. \A id \in Ids : id \in Int
      <4>1. MaxId \in Nat
        BY DocumentsAssumption
      <4> QED
        BY <4>1 DEF Ids
    <3> QED
      BY <3>1, <3>2
  <2> QED
    BY <2>1, <2>2 DEF Range
<1> QED
  BY <1>1, <1>3, <1>4, <1>5 DEF DomainSchema, ConvertDomain, NonEmpty, At

\* Its mappings.
LEMMA MappingMeetsSchema ==
  ASSUME NEW mapping, IsObject(mapping), ~IsArray(mapping), Flat(mapping, "mapping") = "none",
         \A key \in DOMAIN mapping.at : mapping.at[key] # None,
         ConvertMapping(mapping)
  PROVE  MappingSchema(mapping)
<1>1. Shaped(mapping, "mapping")
  BY TakenIsShaped DEF Flat
<1>2. DOMAIN mapping.at = Range(mapping.keys)
  BY <1>1 DEF IsObject, Spelled, Shaped
<1>3. mapping.at.purpose # ""
  BY DEF ConvertMapping, Purposes
<1>4. ShapedWithout(mapping, "mapping", {})
  <2>1. ASSUME NEW key \in Range(mapping.keys)
        PROVE  mapping.at[key] # ""
    BY <1>1, <1>2, <1>3, KeysOfObjects DEF Shaped, ConvertMapping, NonEmpty, At
  <2> QED
    BY <1>1, <2>1 DEF ShapedWithout
<1> QED
  BY <1>2, <1>4 DEF MappingSchema, ConvertMapping, At

\* Its artifacts, with paths that pass P1.
LEMMA ArtifactMeetsSchema ==
  ASSUME NEW artifact, IsObject(artifact), ~IsArray(artifact),
         Flat(artifact, "artifact") = "none",
         \A key \in DOMAIN artifact.at : artifact.at[key] # None,
         ConvertArtifact(artifact), artifact.at.path \notin DottedPaths
  PROVE  ArtifactSchema(artifact)
<1> DEFINE Free == ArtifactCounts \cup {"unit"}
<1>1. Shaped(artifact, "artifact")
  BY TakenIsShaped DEF Flat
<1>2. DOMAIN artifact.at = Range(artifact.keys)
  BY <1>1 DEF IsObject, Spelled, Shaped
<1>3. /\ artifact.at.path \notin Traversals \cup {""}
      /\ artifact.at.format \in Formats /\ artifact.at.format # ""
      /\ artifact.at.sha256 \in Sha256 /\ artifact.at.sha256 # ""
  BY DocumentsAssumption DEF ConvertArtifact, ValidRelativePath, ValidSha256, Formats
<1>4. ASSUME "time_meaning" \in DOMAIN artifact.at
      PROVE  artifact.at.time_meaning \in TimeMeanings /\ artifact.at.time_meaning # ""
  BY <1>4 DEF ConvertArtifact, At, TimeMeanings, FieldTimeMeanings
<1>5. ASSUME NEW key \in {"role", "crs", "domain", "variable"}, key \in DOMAIN artifact.at
      PROVE  artifact.at[key] # ""
  BY <1>5 DEF ConvertArtifact, NonEmpty, At
<1>6. ASSUME NEW key \in Range(artifact.keys) \ Free
      PROVE  artifact.at[key] # ""
  <2>1. key \in {"role", "crs", "domain", "variable", "path", "format", "sha256",
                 "time_meaning"}
    BY <1>1, <1>6, KeysOfObjects DEF Shaped, ArtifactCounts
  <2> QED
    BY <1>2, <1>3, <1>4, <1>5, <1>6, <2>1
<1>7. ShapedWithout(artifact, "artifact", Free)
  BY <1>1, <1>6 DEF ShapedWithout
<1>8. \A key \in ArtifactCounts \cap Range(artifact.keys) : AtLeast(0, artifact.at[key])
  BY <1>2, FlatIsInRange DEF ArtifactCounts, Integral
<1> QED
  BY <1>2, <1>3, <1>4, <1>7, <1>8 DEF ArtifactSchema

\* Its grid.
LEMMA GridMeetsSchema ==
  ASSUME NEW grid, IsObject(grid), ~IsArray(grid), ~IsArray(grid.at.extent),
         \A extent \in Under(grid, {"extent"}) : IsObject(extent),
         GridDto(grid) = "none", ConvertGrid(grid),
         \A key \in {"cell_size", "nx", "ny"} : ~(grid.at[key] <= 0)
  PROVE  GridSchema(grid)
<1> DEFINE inner == [key \in Keys("grid") |->
                      IF key = "extent" THEN Flat(grid.at.extent, "extent") ELSE "none"]
           Free == {"extent", "cell_size", "nx", "ny"}
<1>1. Deserialized(grid, "grid", inner) = "none"
  BY DEF GridDto
<1>2. Optional("grid") = {} /\ Optional("extent") = {}
  BY DEF Optional
<1>3. Shaped(grid, "grid")
  <2> HIDE DEF inner
  <2> QED
    BY <1>1, <1>2, TakenIsShaped
<1>4. /\ DOMAIN grid.at = Range(grid.keys)
      /\ "extent" \in Range(grid.keys) /\ "crs" \in Range(grid.keys)
  BY <1>2, <1>3, KeysOfObjects DEF IsObject, Spelled, Shaped, Required
<1>5. grid.at.extent \notin {None, Mistyped}
  BY <1>3, <1>4 DEF Shaped
<1>6. IsObject(grid.at.extent)
  BY <1>4, <1>5 DEF Under
<1>7. Flat(grid.at.extent, "extent") = "none"
  <2>1. inner["extent"] = "none"
    <3> HIDE DEF inner
    <3> QED
      BY <1>1, <1>4, <1>5, TakenObject
  <2> QED
    BY <2>1, KeysOfObjects
<1>8. Shaped(grid.at.extent, "extent")
  BY <1>2, <1>6, <1>7, TakenIsShaped DEF Flat
<1>9. ShapedWithout(grid, "grid", Free)
  <2>1. \A key \in Range(grid.keys) \ Free : key \in {"crs", "origin"}
    BY <1>3, KeysOfObjects DEF Shaped
  <2>2. grid.at.crs # "" /\ grid.at.origin = "upper_left"
    BY <1>4 DEF ConvertGrid, NonEmpty, At
  <2> QED
    BY <1>3, <2>1, <2>2 DEF ShapedWithout
<1>10. \A key \in {"cell_size", "nx", "ny"} : AtLeast(1, grid.at[key])
  BY DEF AtLeast
<1> QED
  BY <1>8, <1>9, <1>10 DEF GridSchema, ConvertGrid

\* A manifest that is taken, with none of the known exceptions.
LEMMA ManifestMeetsSchema ==
  ASSUME NEW text, IsManifestText(text), FromJson(text) = "none",
         ~IsArray(text), ~IsArray(text.at.grid), ~IsArray(text.at.grid.at.extent),
         \A key \in Lists : \A n \in DOMAIN text.at[key] : ~IsArray(text.at[key][n]),
         \A key \in Lists : ~Somewhere(None, text.at[key]),
         text.at.domains # <<>>,
         \A key \in {"cell_size", "nx", "ny"} : ~(text.at.grid.at[key] <= 0),
         \A n \in DOMAIN text.at.artifacts : text.at.artifacts[n].at.path \notin DottedPaths,
         text.at.artifacts # <<>>
  PROVE  ManifestSchema(text)
<1> DEFINE inner == [key \in Keys("manifest") |->
                      CASE key = "grid" -> GridDto(text.at.grid)
                        [] key = "domains" -> Elements(text.at.domains, "domain")
                        [] key = "mappings" -> Elements(text.at.mappings, "mapping")
                        [] key = "artifacts" -> Elements(text.at.artifacts, "artifact")
                        [] OTHER -> "none"]
           Free == {"grid", "domains", "mappings", "artifacts"}
<1>1. Deserialized(text, "manifest", inner) = "none" /\ text.at.format_version = Version
      /\ Converts(text)
  BY DEF FromJson, ManifestDto
<1>2. text # Mistyped
  BY <1>1 DEF Deserialized
<1>3. IsObject(text) /\ Optional("manifest") = {}
  BY <1>2 DEF IsManifestText, Optional
<1>4. Shaped(text, "manifest")
  <2> HIDE DEF inner
  <2> QED
    BY <1>1, <1>3, TakenIsShaped
<1>5. DOMAIN text.at = Range(text.keys) /\ Range(text.keys) = Keys("manifest")
  BY <1>3, <1>4 DEF IsObject, Spelled, Shaped, Required
<1>6. \A key \in Keys("manifest") : text.at[key] \notin {None, Mistyped} /\ inner[key] = "none"
  <2> HIDE DEF inner
  <2> QED
    BY <1>1, <1>3, <1>4, <1>5, TakenObject DEF Shaped
<1>7. /\ GridDto(text.at.grid) = "none"
      /\ Elements(text.at.domains, "domain") = "none"
      /\ Elements(text.at.mappings, "mapping") = "none"
      /\ Elements(text.at.artifacts, "artifact") = "none"
  <2>1. {"grid", "domains", "mappings", "artifacts"} \subseteq Keys("manifest")
    BY KeysOfObjects
  <2> QED
    BY <1>6, <2>1
<1>8. /\ IsObject(text.at.grid)
      /\ \A extent \in Under(text.at.grid, {"extent"}) : IsObject(extent)
      /\ AreObjects(text.at.domains) /\ AreObjects(text.at.mappings)
      /\ AreObjects(text.at.artifacts)
  <2>1. \A key \in Free : text.at[key] \in Under(text, {key})
    BY <1>5, <1>6, KeysOfObjects DEF Under
  <2>2. \A key \in Lists : Under(text, {key}) \subseteq Under(text, Lists)
    BY DEF Under
  <2> QED
    BY <1>2, <2>1, <2>2 DEF IsManifestText, Lists
<1>9. GridSchema(text.at.grid)
  BY <1>1, <1>7, <1>8, GridMeetsSchema DEF Converts
<1>10. ASSUME NEW key \in Lists, NEW n \in DOMAIN text.at[key], NEW kind,
              Elements(text.at[key], kind) = "none", AreObjects(text.at[key])
       PROVE  /\ IsObject(text.at[key][n]) /\ Flat(text.at[key][n], kind) = "none"
              /\ ~IsArray(text.at[key][n])
              /\ \A other \in DOMAIN text.at[key][n].at : text.at[key][n].at[other] # None
  <2>1. Flat(text.at[key][n], kind) = "none"
    BY <1>10, ElementsErrors DEF AreObjects
  <2>2. text.at[key][n] # Mistyped
    BY <2>1 DEF Flat, Deserialized
  <2> QED
    BY <1>10, <2>1, <2>2 DEF AreObjects, Somewhere
<1>11. ASSUME NEW n \in DOMAIN text.at.domains
       PROVE  DomainSchema(text.at.domains[n])
  BY <1>1, <1>7, <1>8, <1>10, DomainMeetsSchema DEF Converts, Lists
<1>12. ASSUME NEW n \in DOMAIN text.at.mappings
       PROVE  MappingSchema(text.at.mappings[n])
  BY <1>1, <1>7, <1>8, <1>10, MappingMeetsSchema DEF Converts, Lists
<1>13. ASSUME NEW n \in DOMAIN text.at.artifacts
       PROVE  ArtifactSchema(text.at.artifacts[n])
  BY <1>1, <1>7, <1>8, <1>10, ArtifactMeetsSchema DEF Converts, Lists
<1>14. ShapedWithout(text, "manifest", Free)
  <2>1. ASSUME NEW key \in Range(text.keys) \ Free
        PROVE  text.at[key] # ""
    <3>1. key \in {"format_version", "created_at", "package_kind"}
            \/ key \in {"name", "producer", "producer_version", "crs"}
      BY <1>5, <2>1, KeysOfObjects
    <3>2. text.at.format_version # "" /\ text.at.package_kind # ""
      BY <1>1 DEF Converts, Version
    <3>3. text.at.created_at # ""
      BY <1>1, DocumentsAssumption DEF Converts
    <3> QED
      BY <1>1, <1>5, <3>1, <3>2, <3>3 DEF Converts, NonEmpty, At
  <2> QED
    BY <1>4, <2>1 DEF ShapedWithout
<1> QED
  BY <1>1, <1>9, <1>11, <1>12, <1>13, <1>14 DEF ManifestSchema, Converts

\* A field that is taken.
LEMMA FieldMeetsSchema ==
  ASSUME NEW field, IsObject(field), ~IsArray(field), Flat(field, "field") = "none",
         \A key \in DOMAIN field.at : field.at[key] # None, ParseField(field)
  PROVE  /\ ShapedWithout(field, "field", {"layer_count"})
         /\ field.at.value_type \in ValueTypes
         /\ field.at.time_meaning \in FieldTimeMeanings
         /\ field.at.role \in Roles
         /\ field.at.conservation_class \in ConservationClasses
         /\ \/ field.at.extent = "scalar" /\ "layer_count" \notin Range(field.keys)
            \/ /\ field.at.extent = "per_layer"
               /\ At(field, "layer_count") # None /\ AtLeast(1, field.at.layer_count)
<1>1. Shaped(field, "field")
  BY TakenIsShaped DEF Flat
<1>2. DOMAIN field.at = Range(field.keys)
  BY <1>1 DEF IsObject, Spelled, Shaped
<1>3. ASSUME NEW key \in Range(field.keys) \ {"layer_count"}
      PROVE  field.at[key] # ""
  <2>1. key \in {"id", "domain", "quantity", "units"}
          \/ key \in {"value_type", "time_meaning", "role", "conservation_class", "extent"}
    BY <1>1, <1>3, KeysOfObjects DEF Shaped
  <2>2. field.at.value_type # "" /\ field.at.time_meaning # ""
    BY DEF ParseField, ValueTypes, FieldTimeMeanings
  <2>3. field.at.role # "" /\ field.at.conservation_class # "" /\ field.at.extent # ""
    BY DEF ParseField, Roles, ConservationClasses
  <2> QED
    BY <1>2, <1>3, <2>1, <2>2, <2>3 DEF ParseField, NonEmpty, At
<1>4. ASSUME At(field, "layer_count") \notin {None, 0}
      PROVE  AtLeast(1, field.at.layer_count)
  <2>1. field.at.layer_count \in Nat /\ field.at.layer_count # 0
    BY <1>4, FlatIsInRange DEF At, Integral
  <2> QED
    BY <2>1 DEF AtLeast
<1> QED
  BY <1>1, <1>2, <1>3, <1>4 DEF ShapedWithout, ParseField, At

\* A registry that is taken.
LEMMA RegistryMeetsSchema ==
  ASSUME NEW text, IsRegistryText(text), ParsesAsRegistry(text), ~IsArray(text),
         \A n \in DOMAIN text.at.fields : ~IsArray(text.at.fields[n]),
         ~Somewhere(None, text.at.fields)
  PROVE  RegistrySchema(text)
<1> DEFINE inner == [key \in Keys("registry") |->
                      IF key = "fields" THEN Elements(text.at.fields, "field") ELSE "none"]
<1>1. Deserialized(text, "registry", inner) = "none"
  BY DEF ParsesAsRegistry, FieldRegistryDto
<1>2. text # Mistyped
  BY <1>1 DEF Deserialized
<1>3. IsObject(text) /\ Optional("registry") = {}
  BY <1>2 DEF IsRegistryText, Optional
<1>4. Shaped(text, "registry")
  <2> HIDE DEF inner
  <2> QED
    BY <1>1, <1>3, TakenIsShaped
<1>5. /\ "fields" \in Range(text.keys) /\ DOMAIN text.at = Range(text.keys)
      /\ text.at.fields \notin {None, Mistyped}
  BY <1>3, <1>4, KeysOfObjects DEF IsObject, Spelled, Shaped, Required
<1>6. Elements(text.at.fields, "field") = "none"
  <2>1. inner["fields"] = "none"
    <3> HIDE DEF inner
    <3> QED
      BY <1>1, <1>3, <1>4, <1>5, TakenObject DEF Shaped
  <2> QED
    BY <2>1, KeysOfObjects
<1>7. AreObjects(text.at.fields)
  BY <1>2, <1>5 DEF IsRegistryText, Under
<1>8. ASSUME NEW n \in DOMAIN text.at.fields
      PROVE  /\ IsObject(text.at.fields[n]) /\ Flat(text.at.fields[n], "field") = "none"
             /\ \A other \in DOMAIN text.at.fields[n].at : text.at.fields[n].at[other] # None
  <2>1. Flat(text.at.fields[n], "field") = "none"
    BY <1>6, <1>7, ElementsErrors DEF AreObjects
  <2>2. text.at.fields[n] # Mistyped
    BY <2>1 DEF Flat, Deserialized
  <2> QED
    BY <1>7, <2>1, <2>2 DEF AreObjects, Somewhere
<1>9. \A n \in DOMAIN text.at.fields : ParseField(text.at.fields[n])
  BY DEF ParsesAsRegistry
<1> QED
  BY <1>4, <1>8, <1>9, FieldMeetsSchema DEF RegistrySchema, ParsesAsRegistry

\* The schemas describe what a conformant report is given for.
THEOREM ConformantDocumentsMeetSchemas == Spec => []ConformantMeetsSchemas
<1>1. ASSUME BoundaryInv, answer["python"] = "report"
      PROVE  /\ FromJson(manifest) = "none" /\ Conformant
             /\ manifest # Unreadable /\ registry # Unreadable
  <2>1. ~ToRefuse /\ Document = "report"
    BY <1>1 DEF BoundaryInv, FoundOut, FrontEnds, Pending
  <2> QED
    BY <2>1 DEF ToRefuse, Document, Conformant, GoodRegistry
<1>2. ASSUME BoundaryInv, answer["python"] = "report"
      PROVE  /\ \/ ManifestSchema(manifest)
                \/ Unchecked
                \/ ArraysInManifest
                \/ \E key \in Lists : Somewhere(None, manifest.at[key])
             /\ RegistrySchema(registry) \/ ArraysInRegistry \/ Somewhere(None, registry.at.fields)
  <2>1. IsManifestText(manifest) /\ IsRegistryText(registry)
    BY <1>1, <1>2 DEF BoundaryInv
  <2>2. manifest.at.artifacts # <<>>
    <3> SUFFICES ASSUME manifest.at.artifacts = <<>>
                 PROVE  FALSE
      OBVIOUS
    <3>1. RegistryArtifacts = {}
      BY DEF RegistryArtifacts
    <3>2. Cardinality({}) = 0
      BY FS_EmptySet
    <3>3. Cardinality(RegistryArtifacts) = 1
      BY <1>1, <1>2 DEF Conformant
    <3> QED
      BY <3>1, <3>2, <3>3
  <2>3. ASSUME ~Unchecked, ~ArraysInManifest,
               ~ \E key \in Lists : Somewhere(None, manifest.at[key])
        PROVE  ManifestSchema(manifest)
    BY <1>1, <1>2, <2>1, <2>2, <2>3, ManifestMeetsSchema
    DEF Unchecked, ArraysInManifest, Conformant
  <2>4. ASSUME ~ArraysInRegistry, ~Somewhere(None, registry.at.fields)
        PROVE  RegistrySchema(registry)
    BY <1>1, <1>2, <2>1, <2>4, RegistryMeetsSchema DEF ArraysInRegistry, Conformant, GoodRegistry
  <2> QED
    BY <2>3, <2>4
<1>3. ASSUME BoundaryInv
      PROVE  ConformantMeetsSchemas
  BY <1>2, <1>3 DEF ConformantMeetsSchemas
<1> QED
  BY <1>3, BoundaryInvHolds, PTL

-----------------------------------------------------------------------------
(***************************************************************************)
(* From the schemas to the parser.                                         *)
(***************************************************************************)

\* A number that meets its schema and can be represented has the type of its key.
LEMMA RepresentableFits ==
  ASSUME NEW object, IsObject(object), ~Unrepresentable(object),
         \A key \in DOMAIN object.at : object.at[key] \notin {None, Mistyped},
         \A key \in Integral \cap DOMAIN object.at : AtLeast(0, object.at[key])
  PROVE  \A key \in DOMAIN object.at : Fits(key, object.at[key])
<1> SUFFICES ASSUME NEW key \in DOMAIN object.at
             PROVE  Fits(key, object.at[key])
  OBVIOUS
<1> DEFINE value == object.at[key]
<1>1. IsNumber(key, value)
  BY DEF IsObject
<1>2. ASSUME key \in Integral
      PROVE  value \in 0 .. Bound(key)
  <2>1. value \in Int /\ ~(value > Bound(key)) /\ AtLeast(0, value)
    BY <1>1, <1>2 DEF IsNumber, Unrepresentable
  <2>2. Bound(key) \in Nat
    BY DocumentsAssumption DEF Bound
  <2> HIDE DEF value
  <2> QED
    BY <2>1, <2>2 DEF AtLeast
<1>3. key \in Real => value # Excessive
  BY DEF Unrepresentable
<1>4. key = "external_ids" => \A n \in DOMAIN value : value[n] \in Ids
  BY DEF Unrepresentable
<1> QED
  BY <1>2, <1>3, <1>4 DEF Fits

\* A flat object of the right shape is taken, when its numbers have their types.
LEMMA FlatIsTaken ==
  ASSUME NEW object, NEW kind, IsObject(object), Shaped(object, kind),
         \A key \in DOMAIN object.at : Fits(key, object.at[key])
  PROVE  Flat(object, kind) = "none" /\ DOMAIN object.at = Range(object.keys)
<1>1. DOMAIN object.at = Range(object.keys) /\ Range(object.keys) \subseteq Keys(kind)
  BY DEF IsObject, Spelled, Shaped
<1> DEFINE inner == [key \in Keys(kind) |-> "none"]
<1>2. \A key \in Range(object.keys) : Fits(key, object.at[key]) /\ inner[key] = "none"
  BY <1>1
<1>3. Deserialized(object, kind, inner) = "none"
  <2> HIDE DEF inner
  <2> QED
    BY <1>2, ShapedIsTaken
<1> QED
  BY <1>1, <1>3 DEF Flat

\* Domains, mappings and artifacts that meet their schemas are taken.
LEMMA DomainIsTaken ==
  ASSUME NEW domain, IsObject(domain), DomainSchema(domain), ~Unrepresentable(domain)
  PROVE  Flat(domain, "domain") = "none" /\ ConvertDomain(domain)
<1>1. Shaped(domain, "domain") /\ DOMAIN domain.at = Range(domain.keys)
  BY DEF DomainSchema, Shaped, IsObject, Spelled
<1>2. \A key \in Integral \cap DOMAIN domain.at : AtLeast(0, domain.at[key])
  <2>1. Keys("domain") \cap Integral = {"entity_count"}
    BY KeysOfObjects DEF Integral, Sizes
  <2> QED
    BY <1>1, <2>1 DEF DomainSchema, Shaped
<1>3. \A key \in DOMAIN domain.at : Fits(key, domain.at[key])
  BY <1>1, <1>2, RepresentableFits DEF Shaped
<1> QED
  BY <1>1, <1>3, FlatIsTaken, DocumentsAssumption DEF DomainSchema, ConvertDomain, NonEmpty, At

\* A mapping that meets its schema passes both stages of the parser.
LEMMA MappingIsTaken ==
  ASSUME NEW mapping, IsObject(mapping), MappingSchema(mapping)
  PROVE  Flat(mapping, "mapping") = "none" /\ ConvertMapping(mapping)
<1>1. Shaped(mapping, "mapping") /\ DOMAIN mapping.at = Range(mapping.keys)
  BY DEF MappingSchema, ShapedWithout, Shaped, IsObject, Spelled
<1>2. \A key \in DOMAIN mapping.at : Fits(key, mapping.at[key])
  BY <1>1, KeysOfObjects, NoNumbers DEF Shaped, Integral, Sizes, Real
<1>3. \A key \in Keys("mapping") : At(mapping, key) # ""
  BY <1>1, DocumentsAssumption DEF MappingSchema, ShapedWithout, At
<1>4. mapping.at.purpose = "cell_to_gauge" => At(mapping, "variable") # None
  BY <1>1 DEF MappingSchema, Shaped, At
<1> QED
  BY <1>1, <1>2, <1>3, <1>4, FlatIsTaken, KeysOfObjects
  DEF MappingSchema, ConvertMapping, NonEmpty

\* So does an artifact.
LEMMA ArtifactIsTaken ==
  ASSUME NEW artifact, IsObject(artifact), ArtifactSchema(artifact),
         ~Unrepresentable(artifact)
  PROVE  Flat(artifact, "artifact") = "none" /\ ConvertArtifact(artifact)
<1>1. Shaped(artifact, "artifact") /\ DOMAIN artifact.at = Range(artifact.keys)
  BY DEF ArtifactSchema, ShapedWithout, Shaped, IsObject, Spelled
<1>2. Flat(artifact, "artifact") = "none"
  <2>1. Keys("artifact") \cap Integral = ArtifactCounts
    BY KeysOfObjects DEF Integral, Sizes, ArtifactCounts
  <2>2. \A key \in Integral \cap DOMAIN artifact.at : AtLeast(0, artifact.at[key])
    BY <1>1, <2>1 DEF ArtifactSchema, Shaped
  <2>3. \A key \in DOMAIN artifact.at : Fits(key, artifact.at[key])
    BY <1>1, <2>2, RepresentableFits DEF Shaped
  <2> QED
    BY <1>1, <2>3, FlatIsTaken
<1>3. \A key \in {"role", "crs", "domain", "variable"} : At(artifact, key) # ""
  BY <1>1, DocumentsAssumption DEF ArtifactSchema, ShapedWithout, At, ArtifactCounts
<1>4. ValidRelativePath(artifact.at.path)
  <2>1. "path" \in Range(artifact.keys)
    BY <1>1, RequiredOfArtifacts DEF Shaped
  <2> QED
    BY <2>1 DEF ArtifactSchema, ShapedWithout, ValidRelativePath, ArtifactCounts
<1>5. At(artifact, "time_meaning") \in TimeMeanings \cup {None}
  BY <1>1 DEF ArtifactSchema, At
<1> QED
  BY <1>2, <1>3, <1>4, <1>5 DEF ArtifactSchema, ConvertArtifact, NonEmpty, ValidSha256

\* So is a grid.
LEMMA GridIsTaken ==
  ASSUME NEW grid, IsObject(grid), GridSchema(grid),
         \A extent \in Under(grid, {"extent"}) : IsObject(extent),
         ~Unrepresentable(grid), ~Unrepresentable(grid.at.extent)
  PROVE  GridDto(grid) = "none" /\ ConvertGrid(grid)
<1> DEFINE inner == [key \in Keys("grid") |->
                      IF key = "extent" THEN Flat(grid.at.extent, "extent") ELSE "none"]
<1>1. Shaped(grid, "grid") /\ DOMAIN grid.at = Range(grid.keys)
  BY DEF GridSchema, ShapedWithout, Shaped, IsObject, Spelled
<1>2. /\ "extent" \in Range(grid.keys) /\ "crs" \in Range(grid.keys)
      /\ Range(grid.keys) = Keys("grid")
  BY <1>1, KeysOfObjects DEF Shaped, Required, Optional
<1>3. IsObject(grid.at.extent)
  BY <1>1, <1>2 DEF Under, Shaped
<1>4. Shaped(grid.at.extent, "extent")
      /\ DOMAIN grid.at.extent.at = Range(grid.at.extent.keys)
  BY <1>3 DEF GridSchema, Shaped, IsObject, Spelled
<1>5. \A key \in DOMAIN grid.at.extent.at : Fits(key, grid.at.extent.at[key])
  <2>1. Keys("extent") \cap Integral = {}
    BY KeysOfObjects DEF Integral, Sizes
  <2>2. \A key \in Integral \cap DOMAIN grid.at.extent.at : AtLeast(0, grid.at.extent.at[key])
    BY <1>4, <2>1 DEF Shaped
  <2> QED
    BY <1>3, <1>4, <2>2, RepresentableFits DEF Shaped
<1>6. Flat(grid.at.extent, "extent") = "none"
  BY <1>3, <1>4, <1>5, FlatIsTaken
<1>7. \A key \in DOMAIN grid.at : Fits(key, grid.at[key])
  <2>1. Keys("grid") \cap Integral = {"nx", "ny"}
    BY KeysOfObjects DEF Integral, Sizes
  <2>2. ASSUME NEW key \in Integral \cap DOMAIN grid.at
        PROVE  AtLeast(0, grid.at[key])
    <3>1. AtLeast(1, grid.at[key])
      BY <1>1, <1>2, <2>1 DEF GridSchema
    <3> QED
      BY <3>1 DEF AtLeast
  <2> QED
    BY <1>1, <2>2, RepresentableFits DEF Shaped
<1>8. \A key \in Range(grid.keys) : Fits(key, grid.at[key]) /\ inner[key] = "none"
  BY <1>1, <1>2, <1>6, <1>7
<1>9. Deserialized(grid, "grid", inner) = "none"
  <2> HIDE DEF inner
  <2> QED
    BY <1>1, <1>8, ShapedIsTaken
<1>10. ConvertGrid(grid)
  BY <1>1, <1>2 DEF GridSchema, ShapedWithout, ConvertGrid, NonEmpty, At
<1> QED
  BY <1>9, <1>10 DEF GridDto

\* And a manifest whose numbers can be represented.
LEMMA ManifestIsTaken ==
  ASSUME NEW text, IsManifestText(text), ManifestSchema(text),
         ~Unrepresentable(text.at.grid), ~Unrepresentable(text.at.grid.at.extent),
         \A key \in {"domains", "artifacts"} : \A n \in DOMAIN text.at[key] :
           ~Unrepresentable(text.at[key][n])
  PROVE  FromJson(text) = "none"
<1> DEFINE inner == [key \in Keys("manifest") |->
                      CASE key = "grid" -> GridDto(text.at.grid)
                        [] key = "domains" -> Elements(text.at.domains, "domain")
                        [] key = "mappings" -> Elements(text.at.mappings, "mapping")
                        [] key = "artifacts" -> Elements(text.at.artifacts, "artifact")
                        [] OTHER -> "none"]
<1>1. Shaped(text, "manifest") /\ text # Mistyped /\ IsObject(text)
  BY DEF ManifestSchema, ShapedWithout, Shaped, IsManifestText
<1>2. DOMAIN text.at = Range(text.keys) /\ Range(text.keys) = Keys("manifest")
  BY <1>1 DEF IsObject, Spelled, Shaped, Required, Optional
<1>3. {"grid", "domains", "mappings", "artifacts"} \subseteq Keys("manifest")
  BY KeysOfObjects
<1>4. /\ IsObject(text.at.grid)
      /\ \A extent \in Under(text.at.grid, {"extent"}) : IsObject(extent)
      /\ AreObjects(text.at.domains) /\ AreObjects(text.at.mappings)
      /\ AreObjects(text.at.artifacts)
  <2>1. \A key \in {"grid", "domains", "mappings", "artifacts"} :
          text.at[key] \in Under(text, {key})
    BY <1>1, <1>2, <1>3 DEF Under, Shaped
  <2>2. \A key \in Lists : Under(text, {key}) \subseteq Under(text, Lists)
    BY DEF Under
  <2> QED
    BY <1>1, <2>1, <2>2 DEF IsManifestText, Lists
<1>5. GridDto(text.at.grid) = "none" /\ ConvertGrid(text.at.grid)
  BY <1>4, GridIsTaken DEF ManifestSchema
<1>6. ASSUME NEW n \in DOMAIN text.at.domains
      PROVE  Flat(text.at.domains[n], "domain") = "none" /\ ConvertDomain(text.at.domains[n])
  <2>1. DomainSchema(text.at.domains[n])
    BY DEF ManifestSchema
  <2>2. IsObject(text.at.domains[n])
    BY <1>4, <2>1 DEF AreObjects, DomainSchema, Shaped
  <2> QED
    BY <2>1, <2>2, DomainIsTaken
<1>7. ASSUME NEW n \in DOMAIN text.at.mappings
      PROVE  Flat(text.at.mappings[n], "mapping") = "none" /\ ConvertMapping(text.at.mappings[n])
  <2>1. MappingSchema(text.at.mappings[n])
    BY DEF ManifestSchema
  <2>2. IsObject(text.at.mappings[n])
    BY <1>4, <2>1 DEF AreObjects, MappingSchema, ShapedWithout, Shaped
  <2> QED
    BY <2>1, <2>2, MappingIsTaken
<1>8. ASSUME NEW n \in DOMAIN text.at.artifacts
      PROVE  /\ Flat(text.at.artifacts[n], "artifact") = "none"
             /\ ConvertArtifact(text.at.artifacts[n])
  <2>1. ArtifactSchema(text.at.artifacts[n])
    BY DEF ManifestSchema
  <2>2. IsObject(text.at.artifacts[n])
    BY <1>4, <2>1 DEF AreObjects, ArtifactSchema, ShapedWithout, Shaped
  <2> QED
    BY <2>1, <2>2, ArtifactIsTaken
<1>9. /\ Elements(text.at.domains, "domain") = "none"
      /\ Elements(text.at.mappings, "mapping") = "none"
      /\ Elements(text.at.artifacts, "artifact") = "none"
  BY <1>4, <1>6, <1>7, <1>8, ElementsErrors DEF AreObjects
<1>10. ASSUME NEW key \in Range(text.keys)
       PROVE  Fits(key, text.at[key]) /\ inner[key] = "none"
  <2>1. Fits(key, text.at[key])
    BY <1>2, <1>10, KeysOfObjects, NoNumbers DEF Integral, Sizes, Real
  <2>2. key \in Keys("manifest")
    BY <1>2
  <2>3. inner[key] = "none"
    BY <1>5, <1>9, <2>2
  <2> QED
    BY <2>1, <2>3
<1>11. Deserialized(text, "manifest", inner) = "none"
  <2> HIDE DEF inner
  <2> QED
    BY <1>1, <1>10, ShapedIsTaken
<1>12. Converts(text)
  <2>1. ShapedWithout(text, "manifest", {"grid", "domains", "mappings", "artifacts"})
    BY DEF ManifestSchema
  <2>2. ASSUME NEW key \in {"name", "producer", "producer_version", "crs"}
        PROVE  At(text, key) # ""
    <3>1. key \in Range(text.keys) \ {"grid", "domains", "mappings", "artifacts"}
      BY <1>2, KeysOfObjects
    <3> QED
      BY <1>2, <2>1, <3>1 DEF ShapedWithout, At
  <2> QED
    BY <1>5, <1>6, <1>7, <1>8, <2>2 DEF ManifestSchema, Converts, NonEmpty
<1> QED
  BY <1>11, <1>12 DEF ManifestDto, FromJson, ManifestSchema

\* A registry of unique fields whose numbers of layers can be represented.
LEMMA RegistryIsTaken ==
  ASSUME NEW text, IsRegistryText(text), RegistrySchema(text),
         \A n \in DOMAIN text.at.fields : ~Unrepresentable(text.at.fields[n]),
         UniqueIds(text.at.fields)
  PROVE  ParsesAsRegistry(text)
<1> DEFINE inner == [key \in Keys("registry") |->
                      IF key = "fields" THEN Elements(text.at.fields, "field") ELSE "none"]
<1>1. Shaped(text, "registry") /\ text # Mistyped /\ IsObject(text)
  BY DEF RegistrySchema, Shaped, IsRegistryText
<1>2. DOMAIN text.at = Range(text.keys) /\ Range(text.keys) = Keys("registry")
  BY <1>1 DEF IsObject, Spelled, Shaped, Required, Optional
<1>3. AreObjects(text.at.fields)
  <2>1. text.at.fields \in Under(text, {"fields"})
    BY <1>1, <1>2, KeysOfObjects DEF Under, Shaped
  <2> QED
    BY <1>1, <2>1 DEF IsRegistryText
<1>4. ASSUME NEW n \in DOMAIN text.at.fields
      PROVE  Flat(text.at.fields[n], "field") = "none" /\ ParseField(text.at.fields[n])
  <2> DEFINE field == text.at.fields[n]
  <2>1. /\ ShapedWithout(field, "field", {"layer_count"})
        /\ field.at.value_type \in ValueTypes
        /\ field.at.time_meaning \in FieldTimeMeanings
        /\ field.at.role \in Roles
        /\ field.at.conservation_class \in ConservationClasses
        /\ \/ field.at.extent = "scalar" /\ "layer_count" \notin Range(field.keys)
           \/ /\ field.at.extent = "per_layer"
              /\ At(field, "layer_count") # None /\ AtLeast(1, field.at.layer_count)
    BY DEF RegistrySchema
  <2>2. ~Unrepresentable(field)
    OBVIOUS
  <2>3. field # Mistyped => IsObject(field)
    BY <1>3 DEF AreObjects
  <2> HIDE DEF field
  <2>4. IsObject(field) /\ Shaped(field, "field") /\ DOMAIN field.at = Range(field.keys)
    BY <2>1, <2>3 DEF ShapedWithout, Shaped, IsObject, Spelled
  <2>5. /\ Flat(field, "field") = "none"
        /\ \A key \in DOMAIN field.at : Fits(key, field.at[key])
    <3>1. Keys("field") \cap Integral = {"layer_count"}
      BY KeysOfObjects DEF Integral, Sizes
    <3>2. ASSUME NEW key \in Integral \cap DOMAIN field.at
          PROVE  AtLeast(0, field.at[key])
      <4>1. AtLeast(1, field.at[key])
        BY <2>1, <2>4, <3>1 DEF Shaped
      <4> QED
        BY <4>1 DEF AtLeast
    <3>3. \A key \in DOMAIN field.at : Fits(key, field.at[key])
      BY <2>2, <2>4, <3>2, RepresentableFits DEF Shaped
    <3> QED
      BY <2>4, <3>3, FlatIsTaken
  <2>6. NonEmpty(field, {"id", "domain", "quantity", "units"})
    BY <2>1, <2>4, DocumentsAssumption DEF ShapedWithout, NonEmpty, At
  <2>7. ParseField(field)
    <3>1. ASSUME At(field, "layer_count") # None, AtLeast(1, field.at.layer_count)
          PROVE  At(field, "layer_count") # 0
      BY <3>1 DEF At, AtLeast
    <3> QED
      BY <2>1, <2>4, <2>6, <3>1 DEF ParseField, At
  <2> QED
    BY <2>5, <2>7 DEF field
<1>5. Elements(text.at.fields, "field") = "none"
  BY <1>3, <1>4, ElementsErrors DEF AreObjects
<1>6. ASSUME NEW key \in Range(text.keys)
      PROVE  Fits(key, text.at[key]) /\ inner[key] = "none"
  BY <1>2, <1>5, <1>6, KeysOfObjects, NoNumbers DEF Integral, Sizes, Real
<1>7. Deserialized(text, "registry", inner) = "none"
  <2> HIDE DEF inner
  <2> QED
    BY <1>1, <1>6, ShapedIsTaken
<1> QED
  BY <1>4, <1>7 DEF FieldRegistryDto, ParsesAsRegistry, RegistrySchema

\* Every front end takes what meets the schemas, but for what they cannot exclude.
THEOREM SchemasAreSufficient == Spec => []SchemasSuffice
<1>1. ASSUME BoundaryInv, NEW v \in FrontEnds, answer[v] \in {"exit 2", "HmxError"},
             manifest \notin {Unreadable, Mistyped}, ManifestSchema(manifest),
             ~Unrepresentable(manifest.at.grid), ~Unrepresentable(manifest.at.grid.at.extent),
             \A key \in {"domains", "artifacts"} : \A n \in DOMAIN manifest.at[key] :
               ~Unrepresentable(manifest.at[key][n])
      PROVE  /\ verb = "describe"
             /\ \/ registry = Unreadable
                \/ ~RegistrySchema(registry)
                \/ \E n \in DOMAIN registry.at.fields : Unrepresentable(registry.at.fields[n])
                \/ ~UniqueIds(registry.at.fields)
  <2>1. FromJson(manifest) = "none"
    BY <1>1, ManifestIsTaken DEF BoundaryInv
  <2>2. ToRefuse
    BY <1>1 DEF BoundaryInv, FoundOut, Pending, ExitCode, Document
  <2>3. verb = "describe" /\ ~GoodRegistry
    BY <1>1, <2>1, <2>2 DEF ToRefuse
  <2> QED
    BY <1>1, <2>3, RegistryIsTaken DEF GoodRegistry, BoundaryInv
<1>2. ASSUME BoundaryInv
      PROVE  SchemasSuffice
  BY <1>1, <1>2 DEF SchemasSuffice
<1> QED
  BY <1>2, BoundaryInvHolds, PTL
-----------------------------------------------------------------------------
(***************************************************************************)
(* Keys in order.                                                          *)
(***************************************************************************)

\* A set of numbers that has 0 and the successor of each has them all.
LEMMA NumbersFollow ==
  ASSUME NEW P, 0 \in P, \A n \in Nat : n \in P => n + 1 \in P
  PROVE  Nat \subseteq P
<1> DEFINE Missing == Nat \ P
<1>1. CASE Missing # {}
  <2>1. Min(Missing) \in Missing /\ \A n \in Missing : Min(Missing) <= n
    BY <1>1, SmallestNumber
  <2> DEFINE m == Min(Missing)
  <2>2. m \in Nat \ {0} /\ m \notin P /\ \A n \in Nat \ P : m <= n
    BY <2>1
  <2> HIDE DEF m
  <2>3. m - 1 \in Nat /\ ~(m <= m - 1) /\ (m - 1) + 1 = m
    BY <2>2
  <2>4. m - 1 \in P
    BY <2>2, <2>3
  <2> QED
    BY <2>2, <2>3, <2>4
<1> QED
  BY <1>1

\* What Ordered has of the keys up to each place.
AtPlace(upTo, keys, n) ==
  IF n = 0 THEN <<>>
  ELSE IF Ascending[n] \in keys THEN Append(upTo[n - 1], Ascending[n])
  ELSE upTo[n - 1]

\* It exists, for any number of places.
LEMMA PlacesExist ==
  ASSUME NEW keys, NEW n \in Nat
  PROVE  \E upTo : upTo = [i \in 0 .. n |-> AtPlace(upTo, keys, i)]
<1> DEFINE Done == {m \in Nat : \E f : f = [i \in 0 .. m |-> AtPlace(f, keys, i)]}
<1>1. 0 \in Done
  <2> DEFINE f == [i \in 0 .. 0 |-> <<>>]
  <2>1. f = [i \in 0 .. 0 |-> AtPlace(f, keys, i)]
    BY DEF AtPlace
  <2>2. \E g : g = [i \in 0 .. 0 |-> AtPlace(g, keys, i)]
    <3> HIDE DEF f
    <3> QED
      BY <2>1
  <2> QED
    BY <2>2
<1>2. ASSUME NEW m \in Nat, m \in Done
      PROVE  m + 1 \in Done
  <2>1. PICK f : f = [i \in 0 .. m |-> AtPlace(f, keys, i)]
    BY <1>2
  <2> DEFINE g == [i \in 0 .. m + 1 |-> AtPlace(f, keys, i)]
  <2>2. ASSUME NEW i \in 0 .. m + 1
        PROVE  AtPlace(f, keys, i) = AtPlace(g, keys, i)
    <3>1. CASE i = 0
      BY <3>1 DEF AtPlace
    <3>2. CASE i # 0
      <4>1. i - 1 \in 0 .. m /\ i - 1 \in 0 .. m + 1
        BY <3>2
      <4>2. f[i - 1] = AtPlace(f, keys, i - 1)
        BY <2>1, <4>1
      <4>3. g[i - 1] = f[i - 1]
        BY <4>1, <4>2
      <4> QED
        BY <4>3 DEF AtPlace
    <3> QED
      BY <3>1, <3>2
  <2>3. g = [i \in 0 .. m + 1 |-> AtPlace(g, keys, i)]
    BY <2>2
  <2>4. \E h : h = [i \in 0 .. m + 1 |-> AtPlace(h, keys, i)]
    <3> HIDE DEF g
    <3> QED
      BY <2>3
  <2> QED
    BY <2>4
<1>3. Nat \subseteq Done
  <2> HIDE DEF Done
  <2> QED
    BY <1>1, <1>2, NumbersFollow
<1> QED
  BY <1>3

\* Ordered has each of the keys, once.
LEMMA OrderedKeys ==
  ASSUME NEW keys, keys \subseteq Range(Ascending)
  PROVE  /\ IsSequence(Ordered(keys))
         /\ IsInjective(Ordered(keys))
         /\ Range(Ordered(keys)) = keys
<1> DEFINE N == Len(Ascending)
           upTo == CHOOSE f : f = [i \in 0 .. N |-> AtPlace(f, keys, i)]
           Before(n) == {Ascending[i] : i \in 1 .. n}
           Good(n) == /\ upTo[n] \in Seq(keys)
                      /\ IsInjective(upTo[n])
                      /\ Range(upTo[n]) = keys \cap Before(n)
           Done == {n \in Nat : n <= N => Good(n)}
<1>1. N \in Nat /\ DOMAIN Ascending = 1 .. N
  BY AscendingAssumption
<1>2. Range(Ascending) = Before(N)
  BY <1>1 DEF Range
<1>3. \A a, b \in 1 .. N : Ascending[a] = Ascending[b] => a = b
  BY <1>1, AscendingAssumption DEF IsInjective
<1>4. upTo = [i \in 0 .. N |-> AtPlace(upTo, keys, i)]
  <2> HIDE DEF N
  <2>1. \E f : f = [i \in 0 .. N |-> AtPlace(f, keys, i)]
    BY <1>1, PlacesExist
  <2> QED
    BY <2>1
<1>5. Ordered(keys) = upTo[N]
  BY DEF Ordered, AtPlace
<1> HIDE DEF upTo, N
<1>6. 0 \in Done
  <2>1. upTo[0] = <<>>
    BY <1>1, <1>4 DEF AtPlace
  <2>2. <<>> \in Seq(keys) /\ IsInjective(<<>>) /\ Range(<<>>) = {}
    BY DEF IsInjective, Range
  <2>3. Before(0) = {}
    OBVIOUS
  <2>4. Good(0)
    BY <2>1, <2>2, <2>3
  <2> QED
    BY <2>4
<1>7. ASSUME NEW n \in Nat, n \in Done
      PROVE  n + 1 \in Done
  <2> SUFFICES ASSUME n + 1 <= N
               PROVE  Good(n + 1)
    OBVIOUS
  <2> DEFINE s == upTo[n]
             t == upTo[n + 1]
             key == Ascending[n + 1]
  <2>1. s \in Seq(keys) /\ IsInjective(s) /\ Range(s) = keys \cap Before(n)
    BY <1>1, <1>7
  <2>2. t = IF key \in keys THEN Append(s, key) ELSE s
    <3>1. n + 1 \in 0 .. N /\ n + 1 # 0 /\ (n + 1) - 1 = n
      BY <1>1
    <3> QED
      BY <1>4, <3>1 DEF AtPlace
  <2>3. Before(n + 1) = Before(n) \cup {key}
    OBVIOUS
  <2>4. key \notin Before(n)
    BY <1>1, <1>3
  <2> HIDE DEF s, t, key, Before
  <2>5. t \in Seq(keys) /\ IsInjective(t) /\ Range(t) = keys \cap Before(n + 1)
    <3>1. CASE key \notin keys
      BY <2>1, <2>2, <2>3, <3>1
    <3>2. CASE key \in keys
      <4>1. t = Append(s, key) /\ Len(s) \in Nat /\ DOMAIN s = 1 .. Len(s)
        BY <2>1, <2>2, <3>2
      <4>2. t \in Seq(keys) /\ DOMAIN t = 1 .. Len(s) + 1
        BY <2>1, <3>2, <4>1
      <4>3. t[Len(s) + 1] = key /\ \A i \in 1 .. Len(s) : t[i] = s[i]
        BY <2>1, <3>2, <4>1
      <4>4. \A i \in 1 .. Len(s) : s[i] # key
        BY <2>1, <2>4, <4>1 DEF Range
      <4>5. IsInjective(t)
        BY <2>1, <4>1, <4>2, <4>3, <4>4 DEF IsInjective
      <4>6. Range(t) = Range(s) \cup {key}
        BY <4>1, <4>2, <4>3 DEF Range
      <4> QED
        BY <2>1, <2>3, <3>2, <4>2, <4>5, <4>6
    <3> QED
      BY <3>1, <3>2
  <2> QED
    BY <2>5 DEF t
<1>8. Good(N)
  <2> HIDE DEF Good
  <2>1. Nat \subseteq Done
    <3> HIDE DEF Done
    <3> QED
      BY <1>6, <1>7, NumbersFollow
  <2> QED
    BY <1>1, <2>1
<1>9. IsSequence(upTo[N])
  <2> DEFINE s == upTo[N]
  <2>1. s \in Seq(keys)
    BY <1>8
  <2> HIDE DEF s
  <2>2. s \in Seq({s[k] : k \in DOMAIN s})
    BY <2>1
  <2> QED
    BY <2>2 DEF IsSequence, s
<1> QED
  BY <1>2, <1>5, <1>8, <1>9

-----------------------------------------------------------------------------
(***************************************************************************)
(* What is written, and read again.                                        *)
(***************************************************************************)

\* null and a value of another type are no objects and no arrays.
MarksApart ==
  /\ \A keys, at : [keys |-> keys, at |-> at] \notin {None, Mistyped}
  /\ \A s : IsSequence(s) => s \notin {None, Mistyped}

\* An object whose typed value has what its kind requires is written in the shape
\* that its schema wants, and is read as that value again.
LEMMA WrittenObject ==
  ASSUME NEW kind \in DOMAIN Declared, NEW typed,
         typed = [key \in Keys(kind) |-> typed[key]],
         \A key \in Keys(kind) : typed[key] # None => Taken(key, typed[key]),
         \A key \in Required(kind) : typed[key] # None,
         Object(typed) # Mistyped
  PROVE  /\ IsObject(Object(typed)) /\ Shaped(Object(typed), kind)
         /\ Typed(Object(typed), kind) = typed
         /\ \A key \in Required(kind) : Object(typed).at[key] = typed[key]
         /\ \A key \in DOMAIN Object(typed).at :
              /\ key \in Keys(kind) /\ Object(typed).at[key] # None
              /\ Taken(key, Object(typed).at[key])
<1> DEFINE present == {key \in Keys(kind) : typed[key] # None}
           written == Object(typed)
<1>1. /\ written.keys = Ordered(present)
      /\ written.at = [key \in present |-> typed[key]]
      /\ ~IsArray(written)
  BY DEF Object, IsArray
<1>2. /\ IsSequence(written.keys)
      /\ IsInjective(written.keys)
      /\ Range(written.keys) = present
  <2>1. present \subseteq Range(Ascending)
    BY AscendingAssumption
  <2> HIDE DEF present
  <2> QED
    BY <1>1, <2>1, OrderedKeys
<1>3. Required(kind) \subseteq present
  BY DEF Required
<1> HIDE DEF written
<1>4. IsObject(written)
  BY <1>1, <1>2 DEF IsObject, Spelled, Taken
<1>5. Shaped(written, kind)
  BY <1>1, <1>2, <1>3 DEF Shaped, written, Taken
<1>6. Typed(written, kind) = typed
  BY <1>1 DEF Typed, At
<1> QED
  BY <1>1, <1>3, <1>4, <1>5, <1>6 DEF written

\* What is taken has the typed value of such an object.
LEMMA TakenIsTyped ==
  ASSUME NEW object, NEW kind, NEW inner, IsObject(object),
         Deserialized(object, kind, inner) = "none"
  PROVE  /\ Typed(object, kind) = [key \in Keys(kind) |-> Typed(object, kind)[key]]
         /\ \A key \in Keys(kind) :
              /\ Typed(object, kind)[key] = At(object, key)
              /\ At(object, key) # None =>
                   /\ Taken(key, At(object, key))
                   /\ At(object, key) = object.at[key]
                   /\ inner[key] = "none"
         /\ \A key \in Required(kind) : At(object, key) # None /\ At(object, key) = object.at[key]
         /\ DOMAIN object.at \subseteq Keys(kind)
<1>1. DOMAIN object.at = Range(Spelled(object))
  BY DEF IsObject
<1> QED
  BY <1>1, TakenKeys DEF Typed, At, Required

\* So a flat object that is taken is written and read again, with the same values.
LEMMA FlatIsRewritten ==
  ASSUME MarksApart, NEW kind \in DOMAIN Declared, NEW object, IsObject(object),
         Flat(object, kind) = "none"
  PROVE  /\ IsObject(Object(Typed(object, kind)))
         /\ Flat(Object(Typed(object, kind)), kind) = "none"
         /\ ~IsArray(Object(Typed(object, kind)))
         /\ Typed(Object(Typed(object, kind)), kind) = Typed(object, kind)
         /\ \A key \in Keys(kind) : At(Object(Typed(object, kind)), key) = At(object, key)
         /\ \A key \in Required(kind) :
              Object(Typed(object, kind)).at[key] = object.at[key]
         /\ \A key \in DOMAIN Object(Typed(object, kind)).at :
              Object(Typed(object, kind)).at[key] # None
<1> DEFINE inner == [key \in Keys(kind) |-> "none"]
           typed == Typed(object, kind)
           written == Object(typed)
<1>1. Deserialized(object, kind, inner) = "none"
  BY DEF Flat
<1>2. /\ typed = [key \in Keys(kind) |-> typed[key]]
      /\ \A key \in Keys(kind) : typed[key] # None => Taken(key, typed[key])
      /\ \A key \in Required(kind) : typed[key] # None
      /\ \A key \in Keys(kind) : typed[key] = At(object, key)
      /\ \A key \in Required(kind) : typed[key] = object.at[key]
  <2> HIDE DEF inner
  <2> QED
    BY <1>1, TakenIsTyped DEF Required
<1>3. written # Mistyped
  BY DEF Object, MarksApart
<1>4. /\ IsObject(written) /\ Shaped(written, kind)
      /\ Typed(written, kind) = typed
      /\ \A key \in Required(kind) : written.at[key] = typed[key]
      /\ \A key \in DOMAIN written.at : written.at[key] # None /\ Taken(key, written.at[key])
  <2> HIDE DEF typed
  <2> QED
    BY <1>2, <1>3, WrittenObject
<1>5. Flat(written, kind) = "none"
  <2> HIDE DEF written
  <2> QED
    BY <1>4, FlatIsTaken DEF Taken
<1>6. \A key \in Keys(kind) : At(written, key) = At(object, key)
  <2>1. \A key \in Keys(kind) : Typed(written, kind)[key] = At(written, key)
    BY DEF Typed
  <2> QED
    BY <1>2, <1>4, <2>1
<1> QED
  BY <1>2, <1>4, <1>5, <1>6 DEF Shaped

\* The same of the objects of a list.
LEMMA ListIsRewritten ==
  ASSUME MarksApart, NEW kind \in DOMAIN Declared, NEW objects, AreObjects(objects),
         Elements(objects, kind) = "none"
  PROVE  /\ AreObjects(Objects(All(objects, kind)))
         /\ DOMAIN Objects(All(objects, kind)) = DOMAIN objects
         /\ Elements(Objects(All(objects, kind)), kind) = "none"
         /\ All(Objects(All(objects, kind)), kind) = All(objects, kind)
         /\ ~Somewhere(None, Objects(All(objects, kind)))
         /\ \A n \in DOMAIN objects :
              /\ ~IsArray(Objects(All(objects, kind))[n])
              /\ \A key \in Keys(kind) :
                   At(Objects(All(objects, kind))[n], key) = At(objects[n], key)
              /\ \A key \in Required(kind) :
                   Objects(All(objects, kind))[n].at[key] = objects[n].at[key]
<1> DEFINE written == Objects(All(objects, kind))
<1>1. DOMAIN objects = 1 .. Len(objects) /\ Len(objects) \in Nat /\ IsSequence(objects)
  BY SequencePlaces DEF AreObjects
<1>2. written = [n \in DOMAIN objects |-> Object(Typed(objects[n], kind))]
  BY DEF Objects, All
<1>3. DOMAIN written = DOMAIN objects
  BY <1>2
<1>4. ASSUME NEW n \in DOMAIN objects
      PROVE  /\ IsObject(written[n])
             /\ Flat(written[n], kind) = "none"
             /\ ~IsArray(written[n])
             /\ Typed(written[n], kind) = Typed(objects[n], kind)
             /\ \A key \in Keys(kind) : At(written[n], key) = At(objects[n], key)
             /\ \A key \in Required(kind) : written[n].at[key] = objects[n].at[key]
             /\ \A key \in DOMAIN written[n].at : written[n].at[key] # None
  <2>1. Flat(objects[n], kind) = "none"
    BY <1>1, ElementsErrors
  <2>2. objects[n] # Mistyped
    BY <2>1 DEF Flat, Deserialized
  <2>3. IsObject(objects[n])
    BY <2>2 DEF AreObjects
  <2>4. written[n] = Object(Typed(objects[n], kind))
    BY <1>2
  <2> HIDE DEF written
  <2> QED
    BY <2>1, <2>3, <2>4, FlatIsRewritten
<1> HIDE DEF written
<1>5. IsSequence(written)
  <2> DEFINE Values == {written[k] : k \in DOMAIN written}
  <2>1. written \in [1 .. Len(objects) -> Values]
    BY <1>1, <1>2, <1>3
  <2> HIDE DEF Values
  <2>2. written \in Seq(Values)
    BY <1>1, <2>1
  <2> QED
    BY <2>2 DEF IsSequence, Values
<1>6. AreObjects(written)
  BY <1>3, <1>4, <1>5 DEF AreObjects
<1>7. Elements(written, kind) = "none"
  BY <1>3, <1>4, <1>5, ElementsErrors
<1>8. All(written, kind) = All(objects, kind)
  BY <1>3, <1>4 DEF All
<1>9. ~Somewhere(None, written)
  BY <1>3, <1>4 DEF Somewhere
<1> QED
  BY <1>3, <1>4, <1>6, <1>7, <1>8, <1>9 DEF written

\* The grid that is written of another.
WrittenGrid(grid) == GridObject(TypedGrid(grid))

\* The grid of a manifest that is taken.
LEMMA GridIsRewritten ==
  ASSUME MarksApart, NEW grid, IsObject(grid), GridDto(grid) = "none", ConvertGrid(grid),
         \A extent \in Under(grid, {"extent"}) : IsObject(extent)
  PROVE  /\ IsObject(WrittenGrid(grid)) /\ ~IsArray(WrittenGrid(grid))
         /\ \A extent \in Under(WrittenGrid(grid), {"extent"}) : IsObject(extent)
         /\ ~IsArray(WrittenGrid(grid).at.extent)
         /\ GridDto(WrittenGrid(grid)) = "none" /\ ConvertGrid(WrittenGrid(grid))
         /\ TypedGrid(WrittenGrid(grid)) = TypedGrid(grid)
         /\ \A key \in {"cell_size", "nx", "ny"} : WrittenGrid(grid).at[key] = grid.at[key]
<1> DEFINE Inner(g) == [key \in Keys("grid") |->
                         IF key = "extent" THEN Flat(g.at.extent, "extent") ELSE "none"]
           extent == grid.at.extent
           newExtent == Object(Typed(extent, "extent"))
           typed == [TypedGrid(grid) EXCEPT !.extent = Object(@)]
           written == WrittenGrid(grid)
<1>1. Deserialized(grid, "grid", Inner(grid)) = "none"
  BY DEF GridDto
<1>2. Required("grid") = Keys("grid") /\ {"grid", "extent"} \subseteq DOMAIN Declared
  BY DEF Required, Optional, Declared
<1>3. /\ \A key \in Keys("grid") :
           /\ grid.at[key] # None /\ Taken(key, grid.at[key])
           /\ At(grid, key) = grid.at[key]
           /\ Inner(grid)[key] = "none"
      /\ DOMAIN grid.at \subseteq Keys("grid")
  <2> HIDE DEF Inner
  <2> QED
    BY <1>1, <1>2, TakenIsTyped
<1>4. {"extent", "nx", "ny", "cell_size", "crs", "origin"} \subseteq Keys("grid")
  BY KeysOfObjects
<1>5. Typed(grid, "grid") = [key \in Keys("grid") |-> grid.at[key]]
  BY <1>3 DEF Typed
<1>6. Flat(extent, "extent") = "none" /\ IsObject(extent)
  <2>1. Inner(grid)["extent"] = "none"
    BY <1>3, <1>4
  <2>2. Flat(extent, "extent") = "none"
    BY <1>4, <2>1
  <2>3. extent \in Under(grid, {"extent"})
    <3>1. "extent" \in DOMAIN grid.at
      BY <1>3, <1>4 DEF At
    <3> QED
      BY <1>3, <1>4, <3>1 DEF Under, Taken
  <2> QED
    BY <2>2, <2>3
<1>7. /\ IsObject(newExtent)
      /\ Flat(newExtent, "extent") = "none"
      /\ ~IsArray(newExtent)
      /\ Typed(newExtent, "extent") = Typed(extent, "extent")
  <2> HIDE DEF extent
  <2> QED
    BY <1>2, <1>6, FlatIsRewritten
<1>8. newExtent # None /\ Taken("extent", newExtent) /\ written # Mistyped
  BY NoNumbers DEF Object, GridObject, WrittenGrid, MarksApart, Taken, Integral, Sizes, Real
<1>9. typed = [key \in Keys("grid") |-> IF key = "extent" THEN newExtent ELSE grid.at[key]]
  BY <1>4, <1>5 DEF TypedGrid
<1>10. written = Object(typed)
  BY DEF WrittenGrid, GridObject
<1> HIDE DEF Inner, newExtent, typed, written
<1>11. /\ IsObject(written) /\ Shaped(written, "grid")
       /\ Typed(written, "grid") = typed
       /\ \A key \in Keys("grid") : written.at[key] = typed[key]
       /\ \A key \in DOMAIN written.at :
            key \in Keys("grid") /\ written.at[key] # None /\ Taken(key, written.at[key])
  <2>1. typed = [key \in Keys("grid") |-> typed[key]]
    BY <1>9
  <2>2. \A key \in Keys("grid") : typed[key] # None /\ Taken(key, typed[key])
    BY <1>3, <1>8, <1>9
  <2> QED
    BY <1>2, <1>8, <1>10, <2>1, <2>2, WrittenObject
<1>12. /\ written.at.extent = newExtent
       /\ \A key \in {"nx", "ny", "cell_size", "crs", "origin"} : written.at[key] = grid.at[key]
  BY <1>4, <1>9, <1>11
<1>13. \A e \in Under(written, {"extent"}) : IsObject(e)
  BY <1>7, <1>12 DEF Under
<1>14. Deserialized(written, "grid", Inner(written)) = "none"
  <2>1. ASSUME NEW key \in Keys("grid")
        PROVE  Inner(written)[key] = "none"
    BY <1>3, <1>4, <1>7, <1>12 DEF Inner
  <2>2. \A key \in Range(written.keys) :
          Fits(key, written.at[key]) /\ Inner(written)[key] = "none"
    BY <1>11, <2>1 DEF IsObject, Spelled, Shaped, Taken
  <2> QED
    BY <1>11, <2>2, ShapedIsTaken
<1>15. GridDto(written) = "none"
  BY <1>14 DEF GridDto, Inner
<1>16. ConvertGrid(written)
  <2>1. At(written, "crs") = typed["crs"] /\ At(grid, "crs") = grid.at["crs"]
    BY <1>3, <1>4, <1>11 DEF Typed
  <2> QED
    BY <1>4, <1>9, <1>12, <2>1 DEF ConvertGrid, NonEmpty
<1>17. TypedGrid(written) = TypedGrid(grid)
  <2>1. TypedGrid(written) = [key \in Keys("grid") |->
          IF key = "extent" THEN Typed(newExtent, "extent") ELSE grid.at[key]]
    BY <1>4, <1>9, <1>11 DEF TypedGrid
  <2>2. TypedGrid(grid) = [key \in Keys("grid") |->
          IF key = "extent" THEN Typed(extent, "extent") ELSE grid.at[key]]
    BY <1>4, <1>5 DEF TypedGrid
  <2> QED
    BY <1>7, <2>1, <2>2
<1>18. ~IsArray(written) /\ ~IsArray(written.at.extent)
  BY <1>7, <1>11, <1>12 DEF Shaped
<1> QED
  BY <1>11, <1>12, <1>13, <1>15, <1>16, <1>17, <1>18 DEF written

\* What a conversion looks at is what is written again.
LEMMA ConversionsKeep ==
  ASSUME NEW old, NEW new, NEW kind,
         \A key \in Keys(kind) : At(new, key) = At(old, key),
         \A key \in Required(kind) : new.at[key] = old.at[key]
  PROVE  /\ kind = "domain" /\ ConvertDomain(old) => ConvertDomain(new)
         /\ kind = "mapping" /\ ConvertMapping(old) => ConvertMapping(new)
         /\ kind = "artifact" /\ ConvertArtifact(old) => ConvertArtifact(new)
<1>1. ASSUME kind = "domain", ConvertDomain(old)
      PROVE  ConvertDomain(new)
  <2>1. "id" \in Keys(kind) /\ "index_base" \in Required(kind)
    BY <1>1, KeysOfObjects DEF Required, Optional
  <2> QED
    BY <1>1, <2>1 DEF ConvertDomain, NonEmpty
<1>2. ASSUME kind = "mapping", ConvertMapping(old)
      PROVE  ConvertMapping(new)
  <2>1. /\ {"variable", "source_domain", "target_domain", "artifact_role"} \subseteq Keys(kind)
        /\ "purpose" \in Required(kind)
    BY <1>2, KeysOfObjects DEF Required, Optional
  <2> QED
    BY <1>2, <2>1 DEF ConvertMapping, NonEmpty
<1>3. ASSUME kind = "artifact", ConvertArtifact(old)
      PROVE  ConvertArtifact(new)
  <2>1. /\ {"role", "crs", "domain", "variable", "time_meaning"} \subseteq Keys(kind)
        /\ {"path", "format", "sha256"} \subseteq Required(kind)
    BY <1>3, KeysOfObjects, RequiredOfArtifacts
  <2> QED
    BY <1>3, <2>1 DEF ConvertArtifact, NonEmpty
<1> QED
  BY <1>1, <1>2, <1>3

\* The lists of a manifest, each of its kind.
KindOf == [domains |-> "domain", mappings |-> "mapping", artifacts |-> "artifact"]

\* The manifest that is written of another: taken, with the same values.
LEMMA ManifestIsRewritten ==
  ASSUME MarksApart, NEW text, IsManifestText(text), FromJson(text) = "none"
  PROVE  LET written == Canonical(ManifestOf(text)) IN
         /\ IsManifestText(written) /\ FromJson(written) = "none"
         /\ ManifestOf(written) = ManifestOf(text)
         /\ ~IsArray(written) /\ ~IsArray(written.at.grid) /\ ~IsArray(written.at.grid.at.extent)
         /\ \A key \in {"cell_size", "nx", "ny"} :
              written.at.grid.at[key] = text.at.grid.at[key]
         /\ \A key \in Lists :
              /\ IsSequence(text.at[key])
              /\ DOMAIN written.at[key] = DOMAIN text.at[key]
              /\ ~Somewhere(None, written.at[key])
              /\ \A n \in DOMAIN written.at[key] : ~IsArray(written.at[key][n])
         /\ \A n \in DOMAIN text.at.artifacts :
              written.at.artifacts[n].at.path = text.at.artifacts[n].at.path
<1> DEFINE Inner(t) == [key \in Keys("manifest") |->
                         CASE key = "grid" -> GridDto(t.at.grid)
                           [] key = "domains" -> Elements(t.at.domains, "domain")
                           [] key = "mappings" -> Elements(t.at.mappings, "mapping")
                           [] key = "artifacts" -> Elements(t.at.artifacts, "artifact")
                           [] OTHER -> "none"]
           List(t, key) == All(t.at[key], KindOf[key])
           Value(t, key) ==
             IF key = "created_at" THEN Timestamps[t.at.created_at]
             ELSE IF key = "grid" THEN TypedGrid(t.at.grid)
             ELSE IF key \in Lists THEN List(t, key)
             ELSE t.at[key]
           Written(key) ==
             IF key = "created_at" THEN Timestamps[text.at.created_at]
             ELSE IF key = "grid" THEN WrittenGrid(text.at.grid)
             ELSE IF key \in Lists THEN Objects(List(text, key))
             ELSE text.at[key]
           typed == [key \in Keys("manifest") |-> Written(key)]
           written == Canonical(ManifestOf(text))
           time == Timestamps[text.at.created_at]
<1>1. /\ Deserialized(text, "manifest", Inner(text)) = "none"
      /\ text.at.format_version = Version /\ Converts(text)
  BY DEF FromJson, ManifestDto
<1>2. Required("manifest") = Keys("manifest") /\ "manifest" \in DOMAIN Declared
  BY DEF Required, Optional, Declared
<1>3. text # Mistyped /\ IsObject(text)
  BY <1>1 DEF Deserialized, IsManifestText
<1>4. /\ \A key \in Keys("manifest") :
           /\ text.at[key] \notin {None, Mistyped}
           /\ At(text, key) = text.at[key]
           /\ Inner(text)[key] = "none"
      /\ DOMAIN text.at = Keys("manifest")
  <2> HIDE DEF Inner
  <2> QED
    BY <1>1, <1>2, <1>3, TakenIsTyped DEF At, Taken
<1>5. /\ {"created_at", "grid"} \cup Lists \subseteq Keys("manifest")
      /\ {"format_version", "package_kind", "name", "producer", "producer_version", "crs"}
           \subseteq Keys("manifest")
  BY KeysOfObjects DEF Lists
<1>6. \A key \in Lists : KindOf[key] \in DOMAIN Declared
  BY DEF Lists, KindOf, Declared
\* The values that text has.
<1>7. /\ GridDto(text.at.grid) = "none" /\ ConvertGrid(text.at.grid)
      /\ IsObject(text.at.grid)
      /\ \A extent \in Under(text.at.grid, {"extent"}) : IsObject(extent)
  <2>1. Inner(text)["grid"] = "none"
    BY <1>4, <1>5
  <2>2. GridDto(text.at.grid) = "none"
    BY <1>5, <2>1
  <2>3. text.at.grid \in Under(text, {"grid"})
    BY <1>4, <1>5 DEF Under
  <2> QED
    BY <1>1, <1>3, <2>2, <2>3 DEF IsManifestText, Converts
<1>8. ASSUME NEW key \in Lists
      PROVE  AreObjects(text.at[key]) /\ Elements(text.at[key], KindOf[key]) = "none"
  <2>1. Inner(text)[key] = "none"
    BY <1>4, <1>5
  <2>2. Elements(text.at[key], KindOf[key]) = "none"
    BY <1>5, <2>1 DEF Lists, KindOf
  <2>3. text.at[key] \in Under(text, Lists)
    BY <1>4, <1>5 DEF Under
  <2> QED
    BY <1>3, <2>2, <2>3 DEF IsManifestText, Lists
<1>9. time \in DOMAIN Timestamps /\ Timestamps[time] = time
      /\ time \notin {None, Mistyped}
  BY <1>1, DocumentsAssumption DEF Converts, Range
\* What is written of them.
<1>10. /\ IsObject(WrittenGrid(text.at.grid)) /\ ~IsArray(WrittenGrid(text.at.grid))
       /\ \A extent \in Under(WrittenGrid(text.at.grid), {"extent"}) : IsObject(extent)
       /\ ~IsArray(WrittenGrid(text.at.grid).at.extent)
       /\ GridDto(WrittenGrid(text.at.grid)) = "none" /\ ConvertGrid(WrittenGrid(text.at.grid))
       /\ TypedGrid(WrittenGrid(text.at.grid)) = TypedGrid(text.at.grid)
       /\ \A key \in {"cell_size", "nx", "ny"} :
            WrittenGrid(text.at.grid).at[key] = text.at.grid.at[key]
       /\ WrittenGrid(text.at.grid) \notin {None, Mistyped}
  <2>1. WrittenGrid(text.at.grid) \notin {None, Mistyped}
    BY DEF WrittenGrid, GridObject, Object, MarksApart
  <2> QED
    BY <1>7, <2>1, GridIsRewritten
<1>11. ASSUME NEW key \in Lists
       PROVE  /\ AreObjects(Objects(List(text, key)))
              /\ DOMAIN Objects(List(text, key)) = DOMAIN text.at[key]
              /\ Elements(Objects(List(text, key)), KindOf[key]) = "none"
              /\ All(Objects(List(text, key)), KindOf[key]) = List(text, key)
              /\ ~Somewhere(None, Objects(List(text, key)))
              /\ Objects(List(text, key)) \notin {None, Mistyped}
              /\ \A n \in DOMAIN text.at[key] :
                   /\ ~IsArray(Objects(List(text, key))[n])
                   /\ \A k \in Keys(KindOf[key]) :
                        At(Objects(List(text, key))[n], k) = At(text.at[key][n], k)
                   /\ \A k \in Required(KindOf[key]) :
                        Objects(List(text, key))[n].at[k] = text.at[key][n].at[k]
  <2>1. /\ AreObjects(Objects(List(text, key)))
        /\ DOMAIN Objects(List(text, key)) = DOMAIN text.at[key]
        /\ Elements(Objects(List(text, key)), KindOf[key]) = "none"
        /\ All(Objects(List(text, key)), KindOf[key]) = List(text, key)
        /\ ~Somewhere(None, Objects(List(text, key)))
        /\ \A n \in DOMAIN text.at[key] :
             /\ ~IsArray(Objects(List(text, key))[n])
             /\ \A k \in Keys(KindOf[key]) :
                  At(Objects(List(text, key))[n], k) = At(text.at[key][n], k)
             /\ \A k \in Required(KindOf[key]) :
                  Objects(List(text, key))[n].at[k] = text.at[key][n].at[k]
    BY <1>6, <1>8, ListIsRewritten
  <2>2. Objects(List(text, key)) \notin {None, Mistyped}
    BY <2>1 DEF AreObjects, MarksApart
  <2> QED
    BY <2>1, <2>2
<1>12. Typed(text, "manifest") = [key \in Keys("manifest") |-> text.at[key]]
  BY <1>4 DEF Typed
<1>13. ManifestOf(text) = [key \in Keys("manifest") |-> Value(text, key)]
  <2> DEFINE T == [key \in Keys("manifest") |-> text.at[key]]
  <2>1. /\ T.created_at = text.at.created_at /\ T.grid = text.at.grid
        /\ T.domains = text.at.domains /\ T.mappings = text.at.mappings
        /\ T.artifacts = text.at.artifacts
    BY <1>5 DEF Lists
  <2>2. ManifestOf(text) = [T EXCEPT
          !.created_at = time,
          !.grid       = TypedGrid(text.at.grid),
          !.domains    = All(text.at.domains, "domain"),
          !.mappings   = All(text.at.mappings, "mapping"),
          !.artifacts  = All(text.at.artifacts, "artifact")]
    <3>1. Typed(text, "manifest") = T
      BY <1>12
    <3> HIDE DEF T
    <3> QED
      BY <2>1, <3>1 DEF ManifestOf
  <2>3. /\ List(text, "domains") = All(text.at.domains, "domain")
        /\ List(text, "mappings") = All(text.at.mappings, "mapping")
        /\ List(text, "artifacts") = All(text.at.artifacts, "artifact")
    BY DEF KindOf
  <2> HIDE DEF List, time
  <2> QED
    BY <1>5, <2>2, <2>3 DEF Lists, time
<1>14. written = Object(typed)
  <2> HIDE DEF List
  <2>1. [ManifestOf(text) EXCEPT
           !.grid      = GridObject(@),
           !.domains   = Objects(@),
           !.mappings  = Objects(@),
           !.artifacts = Objects(@)] = typed
    BY <1>5, <1>13 DEF Lists, WrittenGrid
  <2> QED
    BY <2>1 DEF Canonical
<1>15. written # Mistyped
  BY <1>14 DEF Object, MarksApart
<1> HIDE DEF Inner, written
<1>16. /\ IsObject(written) /\ Shaped(written, "manifest")
       /\ Typed(written, "manifest") = typed
       /\ \A key \in Keys("manifest") : written.at[key] = typed[key]
       /\ \A key \in DOMAIN written.at : key \in Keys("manifest")
  <2>1. typed = [key \in Keys("manifest") |-> typed[key]]
    OBVIOUS
  <2>2. ASSUME NEW key \in Keys("manifest")
        PROVE  typed[key] # None /\ Taken(key, typed[key])
    <3> SUFFICES typed[key] \notin {None, Mistyped}
      BY KeysOfObjects, NoNumbers DEF Taken, Integral, Sizes, Real
    <3>1. CASE key \in Lists
      BY <1>11, <3>1 DEF Lists
    <3>2. CASE key \notin Lists
      <4> HIDE DEF List
      <4> QED
        BY <1>4, <1>9, <1>10, <3>2
    <3> QED
      BY <3>1, <3>2
  <2> HIDE DEF typed
  <2> QED
    BY <1>2, <1>14, <1>15, <2>1, <2>2, WrittenObject
<1>17. /\ \A key \in Keys("manifest") : written.at[key] = Written(key)
       /\ written.at.created_at = time
       /\ written.at.grid = WrittenGrid(text.at.grid)
       /\ \A key \in Lists : written.at[key] = Objects(List(text, key))
       /\ \A key \in {"format_version", "package_kind", "name", "producer",
                      "producer_version", "crs"} : written.at[key] = text.at[key]
  <2>1. \A key \in Keys("manifest") : written.at[key] = Written(key)
    BY <1>16
  <2> QED
    BY <1>5, <2>1 DEF Lists
\* What is read of it.
<1>18. ASSUME NEW key \in Lists, NEW n \in DOMAIN text.at[key]
       PROVE  /\ \A k \in Keys(KindOf[key]) :
                   At(written.at[key][n], k) = At(text.at[key][n], k)
              /\ \A k \in Required(KindOf[key]) :
                   written.at[key][n].at[k] = text.at[key][n].at[k]
              /\ ~IsArray(written.at[key][n])
  BY <1>11, <1>17
<1>19. \A key \in Lists : DOMAIN written.at[key] = DOMAIN text.at[key]
  BY <1>11, <1>17
<1>20. IsManifestText(written)
  <2>1. \A objects \in Under(written, Lists) : AreObjects(objects)
    BY <1>11, <1>17 DEF Under
  <2>2. \A grid \in Under(written, {"grid"}) : grid = WrittenGrid(text.at.grid)
    BY <1>17 DEF Under
  <2> HIDE DEF List
  <2> QED
    BY <1>10, <1>16, <2>1, <2>2 DEF IsManifestText, Lists
<1>21. Deserialized(written, "manifest", Inner(written)) = "none"
  <2>1. /\ Elements(written.at.domains, "domain") = "none"
        /\ Elements(written.at.mappings, "mapping") = "none"
        /\ Elements(written.at.artifacts, "artifact") = "none"
    <3>1. ASSUME NEW key \in Lists
          PROVE  Elements(written.at[key], KindOf[key]) = "none"
      BY <1>11, <1>17
    <3> QED
      BY <3>1 DEF Lists, KindOf
  <2>2. GridDto(written.at.grid) = "none"
    BY <1>10, <1>17
  <2>3. ASSUME NEW key \in Keys("manifest")
        PROVE  Inner(written)[key] = "none"
    BY <2>1, <2>2 DEF Inner
  <2>4. \A key \in Range(written.keys) :
          Fits(key, written.at[key]) /\ Inner(written)[key] = "none"
    <3>1. Range(written.keys) = DOMAIN written.at /\ Range(written.keys) \subseteq Keys("manifest")
      BY <1>16 DEF IsObject, Spelled, Shaped
    <3>2. \A key \in Keys("manifest") : key \notin Integral \cup Real \cup {"external_ids"}
      BY KeysOfObjects DEF Integral, Sizes, Real
    <3> QED
      BY <2>3, <3>1, <3>2, NoNumbers
  <2> QED
    BY <1>16, <2>4, ShapedIsTaken
<1>22. Converts(written)
  <2>1. ASSUME NEW n \in DOMAIN text.at.domains
        PROVE  ConvertDomain(written.at.domains[n])
    <3>1. "domains" \in Lists /\ KindOf["domains"] = "domain"
      BY DEF Lists, KindOf
    <3> DEFINE old == text.at["domains"][n]
               new == written.at["domains"][n]
    <3>2. /\ \A k \in Keys("domain") : At(new, k) = At(old, k)
          /\ \A k \in Required("domain") : new.at[k] = old.at[k]
      BY <1>18, <2>1, <3>1
    <3>3. ConvertDomain(old)
      BY <1>1, <2>1 DEF Converts
    <3> HIDE DEF old, new
    <3>4. ConvertDomain(new)
      BY <3>2, <3>3, ConversionsKeep
    <3> QED
      BY <3>4 DEF new
  <2>2. ASSUME NEW n \in DOMAIN text.at.mappings
        PROVE  ConvertMapping(written.at.mappings[n])
    <3>1. "mappings" \in Lists /\ KindOf["mappings"] = "mapping"
      BY DEF Lists, KindOf
    <3> DEFINE old == text.at["mappings"][n]
               new == written.at["mappings"][n]
    <3>2. /\ \A k \in Keys("mapping") : At(new, k) = At(old, k)
          /\ \A k \in Required("mapping") : new.at[k] = old.at[k]
      BY <1>18, <2>2, <3>1
    <3>3. ConvertMapping(old)
      BY <1>1, <2>2 DEF Converts
    <3> HIDE DEF old, new
    <3>4. ConvertMapping(new)
      BY <3>2, <3>3, ConversionsKeep
    <3> QED
      BY <3>4 DEF new
  <2>3. ASSUME NEW n \in DOMAIN text.at.artifacts
        PROVE  ConvertArtifact(written.at.artifacts[n])
    <3>1. "artifacts" \in Lists /\ KindOf["artifacts"] = "artifact"
      BY DEF Lists, KindOf
    <3> DEFINE old == text.at["artifacts"][n]
               new == written.at["artifacts"][n]
    <3>2. /\ \A k \in Keys("artifact") : At(new, k) = At(old, k)
          /\ \A k \in Required("artifact") : new.at[k] = old.at[k]
      BY <1>18, <2>3, <3>1
    <3>3. ConvertArtifact(old)
      BY <1>1, <2>3 DEF Converts
    <3> HIDE DEF old, new
    <3>4. ConvertArtifact(new)
      BY <3>2, <3>3, ConversionsKeep
    <3> QED
      BY <3>4 DEF new
  <2>4. NonEmpty(written, {"name", "producer", "producer_version", "crs"})
    <3>1. ASSUME NEW key \in {"name", "producer", "producer_version", "crs"}
          PROVE  At(written, key) = At(text, key)
      <4>1. key \in Keys("manifest")
        BY <1>5
      <4>2. Typed(written, "manifest")[key] = At(written, key)
        BY <4>1 DEF Typed
      <4>3. typed[key] = written.at[key] /\ written.at[key] = text.at[key]
        BY <1>16, <1>17, <4>1
      <4> HIDE DEF typed
      <4> QED
        BY <1>4, <1>16, <4>1, <4>2, <4>3
    <3> QED
      BY <1>1, <3>1 DEF Converts, NonEmpty
  <2>5. \A key \in {"domains", "mappings", "artifacts"} :
          DOMAIN written.at[key] = DOMAIN text.at[key]
    BY <1>19 DEF Lists
  <2>6. ConvertGrid(written.at.grid)
    BY <1>10, <1>17
  <2>7. written.at.package_kind = "input" /\ written.at.created_at \in DOMAIN Timestamps
    BY <1>1, <1>9, <1>17 DEF Converts
  <2> QED
    BY <2>1, <2>2, <2>3, <2>4, <2>5, <2>6, <2>7 DEF Converts
<1>23. FromJson(written) = "none"
  <2>1. written.at.format_version = Version
    BY <1>1, <1>17
  <2> QED
    BY <1>21, <1>22, <2>1 DEF FromJson, ManifestDto, Inner
<1>24. ManifestOf(written) = ManifestOf(text)
  <2>1. ManifestOf(written) = [key \in Keys("manifest") |-> Value(written, key)]
    <3> DEFINE T == [key \in Keys("manifest") |-> Written(key)]
    <3>1. Typed(written, "manifest") = T
      BY <1>16
    <3>2. /\ T.created_at = written.at.created_at /\ T.grid = written.at.grid
          /\ T.domains = written.at.domains /\ T.mappings = written.at.mappings
          /\ T.artifacts = written.at.artifacts
      BY <1>5, <1>17 DEF Lists
    <3>3. ManifestOf(written) = [T EXCEPT
            !.created_at = Timestamps[written.at.created_at],
            !.grid       = TypedGrid(written.at.grid),
            !.domains    = All(written.at.domains, "domain"),
            !.mappings   = All(written.at.mappings, "mapping"),
            !.artifacts  = All(written.at.artifacts, "artifact")]
      <4> HIDE DEF T
      <4> QED
        BY <3>1, <3>2 DEF ManifestOf
    <3>4. /\ List(written, "domains") = All(written.at.domains, "domain")
          /\ List(written, "mappings") = All(written.at.mappings, "mapping")
          /\ List(written, "artifacts") = All(written.at.artifacts, "artifact")
      BY DEF KindOf
    <3>5. T = [key \in Keys("manifest") |-> written.at[key]]
      BY <1>17
    <3> HIDE DEF List, T
    <3> QED
      BY <1>5, <3>3, <3>4, <3>5 DEF Lists
  <2>2. ASSUME NEW key \in Keys("manifest")
        PROVE  Value(written, key) = Value(text, key)
    <3>1. CASE key = "created_at"
      BY <1>9, <1>17, <3>1
    <3>2. CASE key = "grid"
      BY <1>10, <1>17, <3>2
    <3>3. CASE key \in Lists
      <4>1. List(written, key) = List(text, key)
        BY <1>11, <1>17, <3>3
      <4> HIDE DEF List
      <4> QED
        BY <3>3, <4>1 DEF Lists
    <3>4. CASE key \notin Lists \cup {"created_at", "grid"}
      <4>1. written.at[key] = text.at[key]
        BY <1>17, <3>4
      <4> QED
        BY <3>4, <4>1
    <3> QED
      BY <3>1, <3>2, <3>3, <3>4
  <2> HIDE DEF Value
  <2> QED
    BY <1>13, <2>1, <2>2
<1>25. /\ ~IsArray(written) /\ ~IsArray(written.at.grid) /\ ~IsArray(written.at.grid.at.extent)
       /\ \A key \in {"cell_size", "nx", "ny"} :
            written.at.grid.at[key] = text.at.grid.at[key]
  BY <1>10, <1>16, <1>17 DEF Shaped
<1>26. ASSUME NEW key \in Lists
       PROVE  IsSequence(text.at[key]) /\ ~Somewhere(None, written.at[key])
  BY <1>8, <1>11, <1>17 DEF AreObjects
<1>27. ASSUME NEW n \in DOMAIN text.at.artifacts
       PROVE  written.at.artifacts[n].at.path = text.at.artifacts[n].at.path
  <2>1. "artifacts" \in Lists /\ "path" \in Required(KindOf["artifacts"])
    BY RequiredOfArtifacts DEF Lists, KindOf
  <2> QED
    BY <1>18, <2>1
<1> QED
  BY <1>18, <1>19, <1>20, <1>23, <1>24, <1>25, <1>26, <1>27 DEF written

\* What is written of a conformant package meets the schema, but for what nobody
\* checks.
LEMMA RewrittenMeetsSchema ==
  ASSUME MarksApart, IsManifestText(manifest), FromJson(manifest) = "none", Conformant,
         ~Unchecked
  PROVE  ManifestSchema(Canonical(ManifestOf(manifest)))
<1> DEFINE written == Canonical(ManifestOf(manifest))
<1>1. /\ IsManifestText(written) /\ FromJson(written) = "none"
      /\ ~IsArray(written) /\ ~IsArray(written.at.grid) /\ ~IsArray(written.at.grid.at.extent)
      /\ \A key \in {"cell_size", "nx", "ny"} :
           written.at.grid.at[key] = manifest.at.grid.at[key]
      /\ \A key \in Lists :
           /\ IsSequence(manifest.at[key])
           /\ DOMAIN written.at[key] = DOMAIN manifest.at[key]
           /\ ~Somewhere(None, written.at[key])
           /\ \A n \in DOMAIN written.at[key] : ~IsArray(written.at[key][n])
      /\ \A n \in DOMAIN manifest.at.artifacts :
           written.at.artifacts[n].at.path = manifest.at.artifacts[n].at.path
  BY ManifestIsRewritten
<1> HIDE DEF written
<1>2. "domains" \in Lists /\ "artifacts" \in Lists
  BY DEF Lists
<1>3. ASSUME NEW key \in Lists, manifest.at[key] # <<>>
      PROVE  written.at[key] # <<>>
  <2> SUFFICES ASSUME written.at[key] = <<>>
               PROVE  FALSE
    OBVIOUS
  <2> DEFINE s == manifest.at[key]
  <2>1. IsSequence(s) /\ DOMAIN s = {}
    BY <1>1
  <2> HIDE DEF s
  <2>2. s = <<>>
    BY <2>1 DEF IsSequence
  <2> QED
    BY <1>3, <2>2 DEF s
<1>4. manifest.at.domains # <<>>
      /\ \A key \in {"cell_size", "nx", "ny"} : ~(manifest.at.grid.at[key] <= 0)
  BY DEF Unchecked
<1>5. manifest.at.artifacts # <<>>
  <2> SUFFICES ASSUME manifest.at.artifacts = <<>>
               PROVE  FALSE
    OBVIOUS
  <2>1. RegistryArtifacts = {}
    BY DEF RegistryArtifacts
  <2>2. Cardinality({}) = 0
    BY FS_EmptySet
  <2>3. Cardinality(RegistryArtifacts) = 1
    BY DEF Conformant
  <2> QED
    BY <2>1, <2>2, <2>3
<1>6. \A n \in DOMAIN written.at.artifacts : written.at.artifacts[n].at.path \notin DottedPaths
  BY <1>1, <1>2 DEF Conformant
<1>7. \A key \in {"cell_size", "nx", "ny"} : ~(written.at.grid.at[key] <= 0)
  BY <1>1, <1>4
<1>8. written.at.domains # <<>> /\ written.at.artifacts # <<>>
  BY <1>2, <1>3, <1>4, <1>5
<1>9. ManifestSchema(written)
  BY <1>1, <1>6, <1>7, <1>8, ManifestMeetsSchema
<1> QED
  BY <1>9 DEF written

\* What derive and materialize write of any manifest that is accepted is accepted,
\* has the same values and the same bytes again, and meets the schema when the
\* package is conformant.
THEOREM RewritingIsFaithful ==
  ASSUME MarksApart
  PROVE  Spec => []RewrittenFaithfully
<1>1. ASSUME BoundaryInv, Accepted
      PROVE  IsManifestText(manifest) /\ FromJson(manifest) = "none"
  <2>1. PICK v \in FrontEnds : answer[v] \in Output \cup {"exit 0", "exit 1"}
    BY <1>1 DEF Accepted
  <2>2. ~ToRefuse
    BY <1>1, <2>1 DEF BoundaryInv, FoundOut, Output, Pending
  <2> QED
    BY <1>1, <2>2 DEF ToRefuse, BoundaryInv
<1>2. ASSUME BoundaryInv, answer["python"] = "report"
      PROVE  Conformant
  <2>1. ~ToRefuse /\ Document = "report"
    BY <1>2 DEF BoundaryInv, FoundOut, FrontEnds, Pending
  <2> QED
    BY <2>1 DEF Document
<1>3. ASSUME BoundaryInv
      PROVE  RewrittenFaithfully
  <2> SUFFICES ASSUME Accepted
               PROVE  LET rewritten == Canonical(ManifestOf(manifest)) IN
                      /\ FromJson(rewritten) = "none"
                      /\ ManifestOf(rewritten) = ManifestOf(manifest)
                      /\ Canonical(ManifestOf(rewritten)) = rewritten
                      /\ answer["python"] = "report" => ManifestSchema(rewritten) \/ Unchecked
    BY DEF RewrittenFaithfully
  <2> DEFINE rewritten == Canonical(ManifestOf(manifest))
  <2>1. FromJson(rewritten) = "none" /\ ManifestOf(rewritten) = ManifestOf(manifest)
    BY <1>1, <1>3, ManifestIsRewritten
  <2>2. answer["python"] = "report" => ManifestSchema(rewritten) \/ Unchecked
    BY <1>1, <1>2, <1>3, RewrittenMeetsSchema
  <2> QED
    BY <2>1, <2>2
<1> QED
  BY <1>3, BoundaryInvHolds, PTL

=============================================================================
