------------------------- MODULE RuntimeEnvironment -------------------------
(***************************************************************************)
(* What becomes of the settings of production while releases replace and   *)
(* restore its container: the broker reads them from the running container *)
(* (project_runtime_environment), writes them to a file                    *)
(* (atomic_environment), and Docker lays that file over the environment    *)
(* the candidate's image brings along.                                     *)
(***************************************************************************)
CONSTANTS
  Releases,          \* the releases that may be dispatched
  Names,             \* the names of environment variables
  Application,       \* APPLICATION_ENV_KEYS
  Required,          \* REQUIRED_APPLICATION_ENV_KEYS
  Reviewed,          \* IMAGE_ENV_KEYS
  Values, Empty,     \* values; the one of no characters
  FirstLine,         \* of each value
  ImageEnvironments, \* what images may bring along
  Unset,             \* no such variable
  None               \* no retained container

Environment == [Names -> Values \cup {Unset}]

ASSUME NamesAssumption ==
  Required \subseteq Application /\ Application \cup Reviewed \subseteq Names
ASSUME ValuesAssumption ==
  /\ Empty \in Values /\ Unset \notin Values
  /\ FirstLine \in [Values -> Values] /\ FirstLine[Empty] = Empty
ASSUME ImagesAssumption == ImageEnvironments \subseteq Environment
ASSUME NoneAssumption == None \notin Environment

VARIABLES
  runtime,  \* the environment of the container in production
  kept,     \* per release: that of its retained container, or None
  recorded  \* the releases that have a record: none is deployed twice

vars == <<runtime, kept, recorded>>

TypeOK ==
  /\ runtime \in Environment
  /\ kept \in [Releases -> Environment \cup {None}]
  /\ recorded \subseteq Releases

(* Production before the first release is whatever someone set up by hand. *)
Init ==
  /\ runtime \in Environment
  /\ kept = [r \in Releases |-> None]
  /\ recorded = {}

-----------------------------------------------------------------------------
unknown(env) == {n \in Names \ (Application \cup Reviewed) : env[n] # Unset}
missing_unset(env) == {n \in Required : env[n] = Unset}   \* faulty: may be empty
missing(env) == {n \in Required : env[n] \in {Unset, Empty}}
Projectable(env) == unknown(env) = {} /\ missing(env) = {}

(* Faulty variant: what nobody has set is left to the image.               *)
project_only_set(env) == [n \in {m \in Application : env[m] # Unset} |-> env[n]]
project_runtime_environment(env) ==
  [n \in Application |-> IF env[n] = Unset THEN Empty ELSE env[n]]

(* A file of lines NAME=value holds no value of several lines.             *)
Serializable(settings) == \A n \in DOMAIN settings : settings[n] = FirstLine[settings[n]]

(* Faulty variant: without what the image brings along.                    *)
create_from_file(baked, settings) == [n \in DOMAIN settings |-> FirstLine[settings[n]]]
(* docker create --env-file: what it reads back lies over the image's own. *)
candidate_create_command(baked, settings) ==
  [n \in Names |-> IF n \in DOMAIN settings THEN FirstLine[settings[n]] ELSE baked[n]]

-----------------------------------------------------------------------------
(* deploy, up to the candidate that carries production's name.             *)
Deploy(r, baked) ==
  LET settings == project_runtime_environment(runtime) IN
  /\ r \notin recorded
  /\ Projectable(runtime)
  /\ Serializable(settings)
  /\ recorded' = recorded \cup {r}
  /\ kept' = [kept EXCEPT ![r] = runtime]
  /\ runtime' = candidate_create_command(baked, settings)

(* rollback, watchdog or recovery, whatever container was live: also that  *)
(* of a later release.                                                     *)
Restore(r) ==
  /\ kept[r] # None
  /\ runtime' = kept[r]
  /\ kept' = [kept EXCEPT ![r] = None]
  /\ UNCHANGED recorded

Next == \E r \in Releases :
  Restore(r) \/ \E baked \in ImageEnvironments : Deploy(r, baked)

Spec == Init /\ [][Next]_vars

-----------------------------------------------------------------------------
(* To the application a setting that is unset and an empty one are one and *)
(* the same (os.environ.get(name, "")).                                    *)
Setting(env, n) == IF env[n] = Unset THEN Empty ELSE env[n]

(* No chain of deployments and restores changes a setting: neither the     *)
(* image's own defaults nor the way through the file reach production.     *)
SettingsNeverChange ==
  [][\A n \in Application : Setting(runtime', n) = Setting(runtime, n)]_vars

(* As long as images bring only reviewed names along, what one release     *)
(* leaves in production passes the preflight of the next: no unreviewed    *)
(* name, no required setting missing.  (The broker reads the names of a    *)
(* candidate only then.)                                                   *)
ReviewedNames(env) == \A n \in Names : env[n] # Unset => n \in Application \cup Reviewed
Deployable(env) == ReviewedNames(env) /\ \A n \in Required : env[n] \notin {Unset, Empty}
StaysDeployable ==
  (\A e \in ImageEnvironments : ReviewedNames(e)) /\ recorded # {} => Deployable(runtime)
=============================================================================
