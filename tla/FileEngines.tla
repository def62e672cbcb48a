----------------------------- MODULE FileEngines -----------------------------
(***************************************************************************)
(* The engines for single files side by side.  They share no file and no   *)
(* state, so a behaviour is about one of them, the session; the others     *)
(* stay as they are at first.                                              *)
(***************************************************************************)
EXTENDS SaveClean, RecordFields, LegacyFields, Tes3Plugin, Modlock, PapyrusCompile,
        AssetClosure

VARIABLE session

Sessions == {"save", "fields", "legacy", "tes3", "roll", "compile", "assets"}

engineVars == <<session, svVars, rfVars, lgVars, t3Vars, mlVars, pcVars, asVars>>

\* An engine at its start, at any one of its starts if it is the session.
Idle(name, Starts) == IF session = name THEN Starts ELSE {CHOOSE s \in Starts : TRUE}

EnginesInit ==
  /\ session \in Sessions
  /\ \E s \in Idle("save", SvStarts) : SvInitFrom(s)
  /\ \E s \in Idle("fields", RfStarts) : RfInitFrom(s)
  /\ \E s \in Idle("legacy", LgStarts) : LgInitFrom(s)
  /\ \E s \in Idle("tes3", T3Starts) : T3InitFrom(s)
  /\ \E s \in Idle("roll", MlStarts) : MlInitFrom(s)
  /\ \E s \in Idle("compile", PcStarts) : PcInitFrom(s)
  /\ \E s \in Idle("assets", AsStarts) : AsInitFrom(s)

EnginesNext ==
  \/ /\ session = "save" /\ SvNext
     /\ UNCHANGED <<session, rfVars, lgVars, t3Vars, mlVars, pcVars, asVars>>
  \/ /\ session = "fields" /\ RfNext
     /\ UNCHANGED <<session, svVars, lgVars, t3Vars, mlVars, pcVars, asVars>>
  \/ /\ session = "legacy" /\ LgNext
     /\ UNCHANGED <<session, svVars, rfVars, t3Vars, mlVars, pcVars, asVars>>
  \/ /\ session = "tes3" /\ T3Next
     /\ UNCHANGED <<session, svVars, rfVars, lgVars, mlVars, pcVars, asVars>>
  \/ /\ session = "roll" /\ MlNext
     /\ UNCHANGED <<session, svVars, rfVars, lgVars, t3Vars, pcVars, asVars>>
  \/ /\ session = "compile" /\ PcNext
     /\ UNCHANGED <<session, svVars, rfVars, lgVars, t3Vars, mlVars, asVars>>
  \/ /\ session = "assets" /\ AsNext
     /\ UNCHANGED <<session, svVars, rfVars, lgVars, t3Vars, mlVars, pcVars>>

EnginesSpec == EnginesInit /\ [][EnginesNext]_engineVars
=============================================================================
