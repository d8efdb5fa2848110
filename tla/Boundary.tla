------------------------------ MODULE Boundary ------------------------------
(***************************************************************************)
(* The read-only verbs at their front ends: what `hmx validate`, `hmx      *)
(* describe` and the two Python functions answer about one package, from   *)
(* the texts of the manifest and the registry to the exit code or the      *)
(* exception.                                                              *)
(***************************************************************************)
EXTENDS Documents

CONSTANTS
  Packages,      \* a set of [manifest, registry]: the texts of the two documents
  Unreadable,    \* what stands for the text of a file that cannot be read
  BrokenStdout   \* whether printing may fail, as on a closed pipe

ASSUME PackagesAssumption ==
  \A texts \in Packages :
    /\ texts.manifest # Unreadable => IsManifestText(texts.manifest)
    /\ texts.registry # Unreadable => IsRegistryText(texts.registry)

VARIABLES
  verb,      \* what is asked of the package
  manifest,  \* what is in manifest.json
  registry,  \* what is in the file of the registry artifacts
  payloads,  \* whether the checks of the other artifacts pass
  stage,     \* stage[v]: how far front end v is
  answer     \* answer[v]: what it gave

vars == <<verb, manifest, registry, payloads, stage, answer>>
package == <<verb, manifest, registry, payloads>>

\* The command and the function of the Python module.
FrontEnds == {"hmx", "python"}

Pending == "none yet"
Output == {"report", "nonconformant report", "description"}

-----------------------------------------------------------------------------
Init ==
  /\ verb \in {"validate", "describe"}
  /\ \E texts \in Packages : manifest = texts.manifest /\ registry = texts.registry
  /\ payloads \in BOOLEAN
  /\ stage = [v \in FrontEnds |-> "read"]
  /\ answer = [v \in FrontEnds |-> Pending]

To(v, next) == stage' = [stage EXCEPT ![v] = next]

\* What each kind of error becomes: exit code 2, or the exception that
\* HmxExceptionKind selects.
Refusal(v, error) ==
  IF v = "hmx" THEN "exit 2"
  ELSE IF error = "UnknownFormatVersion" THEN "UnknownFormatVersionError"
  ELSE "HmxError"

Refuse(v, error) ==
  /\ To(v, "end")
  /\ answer' = [answer EXCEPT ![v] = Refusal(v, error)]
  /\ UNCHANGED package

Read(v) ==
  /\ stage[v] = "read"
  /\ IF manifest # Unreadable
     THEN To(v, "parse") /\ UNCHANGED <<package, answer>>
     ELSE Refuse(v, "ManifestUnreadable")

Parse(v) ==
  /\ stage[v] = "parse"
  /\ IF FromJson(manifest) = "none"
     THEN To(v, "work") /\ UNCHANGED <<package, answer>>
     ELSE Refuse(v, FromJson(manifest))

RegistryArtifacts ==
  {n \in DOMAIN manifest.at.artifacts : LET artifact == manifest.at.artifacts[n].at IN
     artifact.role = "registry.fields" /\ artifact.format = "hmx/field_registry_v1"}

GoodRegistry == registry # Unreadable /\ ParsesAsRegistry(registry)

\* describe reads the first registry if there is one, and checks nothing.
Describe(v) ==
  /\ stage[v] = "work"
  /\ verb = "describe"
  /\ IF RegistryArtifacts = {} \/ GoodRegistry
     THEN To(v, "answer") /\ UNCHANGED <<package, answer>>
     ELSE Refuse(v, "Registry")

\* validate always has a report.
Validate(v) ==
  /\ stage[v] = "work"
  /\ verb = "validate"
  /\ To(v, "answer")
  /\ UNCHANGED <<package, answer>>

\* The path check and the registry check, and those of the other artifacts.
Conformant ==
  /\ \A n \in DOMAIN manifest.at.artifacts :
       manifest.at.artifacts[n].at.path \notin DottedPaths
  /\ Cardinality(RegistryArtifacts) = 1
  /\ GoodRegistry
  /\ payloads

Document ==
  IF verb = "describe" THEN "description"
  ELSE IF Conformant THEN "report" ELSE "nonconformant report"

\* Mistake: a report is a success, whatever it says.
ExitCodeZero == "exit 0"

ExitCode == IF Document = "nonconformant report" THEN "exit 1" ELSE "exit 0"

\* A command prints the document with println!, which panics when stdout is
\* broken (exit code 101); a binding returns it.
Answer(v) ==
  /\ stage[v] = "answer"
  /\ To(v, "end")
  /\ \/ v = "hmx" /\ answer' = [answer EXCEPT ![v] = ExitCode]
     \/ v = "hmx" /\ BrokenStdout /\ answer' = [answer EXCEPT ![v] = "exit 101"]
     \/ v = "python" /\ answer' = [answer EXCEPT ![v] = Document]
  /\ UNCHANGED package

Next == \E v \in FrontEnds : Read(v) \/ Parse(v) \/ Describe(v) \/ Validate(v) \/ Answer(v)

Spec == Init /\ [][Next]_vars

-----------------------------------------------------------------------------
(***************************************************************************)
(* Properties.                                                             *)
(***************************************************************************)
Ended(v) == stage[v] = "end"

\* The command and the binding agree on one package: the command exits with 2
\* exactly when the binding raises, and with 1 exactly when the binding returns a
\* report that is not conformant.  A command that could not print is no answer:
\* it exits with 101, outside the closed list of HMX_SPEC 10.1.
FrontEndsAgree ==
  Ended("hmx") /\ Ended("python") /\ answer["hmx"] # "exit 101" =>
    /\ answer["hmx"] = "exit 2" <=> answer["python"] \notin Output
    /\ answer["hmx"] = "exit 1" <=> answer["python"] = "nonconformant report"

\* The manifest was read as one.
Accepted == \E v \in FrontEnds : answer[v] \in Output \cup {"exit 0", "exit 1"}

\* HMX_SPEC 0.1: no other version of the format is ever softened to a report.
HardCut == Accepted => manifest.at.format_version = Version

\* The binding: a wrong format_version is an UnknownFormatVersionError.
VersionReadFirst ==
  /\ Ended("python") /\ manifest \notin {Unreadable, Mistyped}
  /\ At(manifest, "format_version") \notin {None, Mistyped, Version}
  => answer["python"] = "UnknownFormatVersionError"

\* What the schema of the manifest asks for and nobody checks: at least one
\* domain, and a grid with cells of a positive size.
Unchecked ==
  \/ manifest.at.domains = <<>>
  \/ \E key \in {"cell_size", "nx", "ny"} : manifest.at.grid.at[key] <= 0

Somewhere(value, objects) ==
  \E n \in DOMAIN objects :
    \E key \in DOMAIN objects[n].at : objects[n].at[key] = value

Lists == {"domains", "mappings", "artifacts"}

\* An array where the schema wants an object.
ArraysInManifest ==
  \/ IsArray(manifest) \/ IsArray(manifest.at.grid) \/ IsArray(manifest.at.grid.at.extent)
  \/ \E key \in Lists : \E n \in DOMAIN manifest.at[key] : IsArray(manifest.at[key][n])

ArraysInRegistry ==
  IsArray(registry) \/ \E n \in DOMAIN registry.at.fields : IsArray(registry.at.fields[n])

\* Parser, checks and schemas agree on what a good package is: when the report
\* is conformant, both documents meet their schemas, except that the parser takes
\* null for absent and an array for an object, and for what nobody checks.
ConformantMeetsSchemas ==
  answer["python"] = "report" =>
    /\ \/ ManifestSchema(manifest)
       \/ Unchecked
       \/ ArraysInManifest
       \/ \E key \in Lists : Somewhere(None, manifest.at[key])
    /\ RegistrySchema(registry) \/ ArraysInRegistry \/ Somewhere(None, registry.at.fields)

\* A number that the schemas allow and the types of the parser do not: a whole one
\* that is spelled as a float, a u32, u64 or usize that is too large, an external
\* id that is no i64, and a number that no f64 holds.
Unrepresentable(object) ==
  \E key \in DOMAIN object.at : LET value == object.at[key] IN
    \/ key \in Integral /\ (value = Fractional \/ value > Bound(key))
    \/ key \in Real /\ value = Excessive
    \/ key = "external_ids" /\ \E n \in DOMAIN value : value[n] \notin Ids

\* And nothing that meets the schemas is refused, except for such numbers and for
\* a field id that is declared twice, which no schema can exclude.
SchemasSuffice ==
  \A v \in FrontEnds :
    answer[v] \in {"exit 2", "HmxError"} =>
      \/ manifest \in {Unreadable, Mistyped}
      \/ ~ManifestSchema(manifest)
      \/ Unrepresentable(manifest.at.grid) \/ Unrepresentable(manifest.at.grid.at.extent)
      \/ \E key \in {"domains", "artifacts"} : \E n \in DOMAIN manifest.at[key] :
           Unrepresentable(manifest.at[key][n])
      \/ /\ verb = "describe"
         /\ \/ registry = Unreadable
            \/ ~RegistrySchema(registry)
            \/ \E n \in DOMAIN registry.at.fields : Unrepresentable(registry.at.fields[n])
            \/ ~UniqueIds(registry.at.fields)

\* The manifest that derive and materialize write is, but for the artifacts and
\* the names they change, the one they have read, in one spelling: it parses to
\* the same values, and to the same bytes again, over which the content hash is
\* taken.  That of a conformant package meets the schema though the one that was
\* read may not.
RewrittenFaithfully ==
  Accepted =>
    LET rewritten == Canonical(ManifestOf(manifest)) IN
    /\ FromJson(rewritten) = "none"
    /\ ManifestOf(rewritten) = ManifestOf(manifest)
    /\ Canonical(ManifestOf(rewritten)) = rewritten
    /\ answer["python"] = "report" => ManifestSchema(rewritten) \/ Unchecked
=============================================================================
