---------------------- MODULE RuntimeEnvironmentProofs ----------------------
(***************************************************************************)
(* For any names, values, releases and images: deployments and restores    *)
(* keep the settings, and keep production deployable.                      *)
(***************************************************************************)
EXTENDS RuntimeEnvironment, TLAPS

(* A retained container has the settings of production, whatever has       *)
(* replaced it since, and was found deployable when it was set aside.      *)
KeptInv ==
  \A r \in Releases : kept[r] # None =>
    /\ r \in recorded
    /\ Deployable(kept[r])
    /\ \A n \in Application : Setting(kept[r], n) = Setting(runtime, n)

IInv == TypeOK /\ KeptInv /\ StaysDeployable

(* The candidate: its own environment, with the settings of production.    *)
LEMMA Created ==
  ASSUME NEW env \in Environment, NEW baked \in ImageEnvironments, Projectable(env),
         Serializable(project_runtime_environment(env))
  PROVE  LET new == candidate_create_command(baked, project_runtime_environment(env)) IN
         /\ new \in Environment
         /\ \A n \in Application : new[n] = Setting(env, n) /\ Setting(new, n) = Setting(env, n)
         /\ \A n \in Names \ Application : new[n] = baked[n]
<1> DEFINE settings == project_runtime_environment(env)
           new == candidate_create_command(baked, settings)
<1>1. DOMAIN settings = Application /\ Application \subseteq Names
  BY NamesAssumption DEF project_runtime_environment
<1>2. \A n \in Application :
        settings[n] = Setting(env, n) /\ settings[n] \in Values /\ FirstLine[settings[n]] = settings[n]
  BY <1>1, ValuesAssumption DEF project_runtime_environment, Setting, Serializable, Environment
<1> HIDE DEF settings
<1>3. \A n \in Names : new[n] = IF n \in Application THEN settings[n] ELSE baked[n]
  BY <1>1, <1>2 DEF candidate_create_command
<1>4. new \in Environment
  BY <1>1, <1>2, ImagesAssumption DEF candidate_create_command, Environment
<1>5. \A n \in Application : new[n] = Setting(env, n) /\ Setting(new, n) = Setting(env, n)
  BY <1>1, <1>2, <1>3, ValuesAssumption DEF Setting
<1> QED
  BY <1>1, <1>3, <1>4, <1>5 DEF settings

(* Every deployment and every restore keeps the settings.                  *)
LEMMA StepIInv ==
  ASSUME IInv, [Next]_vars
  PROVE  IInv' /\ (\A n \in Application : Setting(runtime', n) = Setting(runtime, n))
<1> USE NamesAssumption, NoneAssumption DEF IInv, TypeOK, KeptInv, StaysDeployable
<1>1. ASSUME NEW r \in Releases, NEW baked \in ImageEnvironments, Deploy(r, baked)
      PROVE  IInv' /\ (\A n \in Application : Setting(runtime', n) = Setting(runtime, n))
  <2>1. /\ runtime' \in Environment
        /\ \A n \in Application :
             runtime'[n] = Setting(runtime, n) /\ Setting(runtime', n) = Setting(runtime, n)
        /\ \A n \in Names \ Application : runtime'[n] = baked[n]
    BY <1>1, Created DEF Deploy
  <2>2. kept' = [kept EXCEPT ![r] = runtime] /\ recorded' = recorded \cup {r} /\ Deployable(runtime)
    BY <1>1 DEF Deploy, Projectable, unknown, missing, Deployable, ReviewedNames
  <2>3. TypeOK'
    BY <2>1, <2>2
  <2>4. KeptInv'
    BY <2>1, <2>2
  <2>5. StaysDeployable'
    <3> SUFFICES ASSUME \A e \in ImageEnvironments : ReviewedNames(e)
                 PROVE  Deployable(runtime')
      OBVIOUS
    <3>1. ReviewedNames(runtime')
      BY <2>1 DEF ReviewedNames
    <3>2. \A n \in Required : runtime'[n] \notin {Unset, Empty}
      BY <2>1, <2>2 DEF Deployable, Setting
    <3> QED
      BY <3>1, <3>2 DEF Deployable
  <2> QED
    BY <2>1, <2>3, <2>4, <2>5
<1>2. ASSUME NEW r \in Releases, Restore(r)
      PROVE  IInv' /\ (\A n \in Application : Setting(runtime', n) = Setting(runtime, n))
  <2>1. /\ runtime' = kept[r] /\ kept[r] # None /\ Deployable(kept[r])
        /\ kept' = [kept EXCEPT ![r] = None] /\ recorded' = recorded
    BY <1>2 DEF Restore
  <2>2. \A n \in Application : Setting(runtime', n) = Setting(runtime, n)
    BY <2>1
  <2>3. TypeOK'
    BY <2>1
  <2>4. KeptInv'
    BY <2>1, <2>2
  <2>5. StaysDeployable'
    BY <2>1
  <2> QED
    BY <2>2, <2>3, <2>4, <2>5
<1>3. CASE UNCHANGED vars
  BY <1>3 DEF vars
<1> QED
  BY <1>1, <1>2, <1>3 DEF Next

(* The container set up by hand passes the preflight.                      *)
LEMMA InitIInv == Init => IInv
BY DEF Init, IInv, TypeOK, KeptInv, StaysDeployable

(* So the invariant holds throughout.                                      *)
LEMMA Always == Spec => []IInv
BY InitIInv, StepIInv, PTL DEF Spec

(* Environments stay environments.                                         *)
THEOREM TypeCorrect == Spec => []TypeOK
<1>1. IInv => TypeOK
  BY DEF IInv
<1> QED
  BY <1>1, Always, PTL

(* What a release leaves behind passes the next preflight, provided that   *)
(* images bring only reviewed names along.                                 *)
THEOREM StaysDeployableAlways == Spec => []StaysDeployable
<1>1. IInv => StaysDeployable
  BY DEF IInv
<1> QED
  BY <1>1, Always, PTL

(* No setting ever changes on its way from container to container.         *)
THEOREM SettingsAreKept == Spec => SettingsNeverChange
<1>1. IInv /\ [Next]_vars =>
        [\A n \in Application : Setting(runtime', n) = Setting(runtime, n)]_vars
  BY StepIInv
<1> QED
  BY <1>1, Always, PTL DEF Spec, SettingsNeverChange
=============================================================================
