---------------------------- MODULE MCModInstall ----------------------------
(* Instances of ModInstall for TLC.                                        *)
EXTENDS ModInstall, TLC

CONSTANTS skyrim, plugin, mesh

\* The names are interchangeable; the files are not, one being a plugin.
Names == Permutations(Mods)

\* Something is there, or goes on, in another game than OpenMW.
InOtherGame ==
  \E g \in Games \ {OpenMW} :
    \/ cfg[g] # NoCfg
    \/ \E f \in Files : data[g][f] # Absent
    \/ op # Idle /\ op.game = g
    \/ \E m \in Mods : IsManifest(manifest[m]) /\ manifest[m].game = g

MeshInUse ==
  \/ \E g \in Games : data[g][mesh] # Absent
  \/ op # Idle /\ op.kind # "uninstall" /\ mesh \in op.plan
  \/ \E m \in Mods : IsManifest(manifest[m]) /\ mesh \in DOMAIN manifest[m].files

\* Bound of the run with two games: all that may happen happens in OpenMW;
\* with the other game in it, it happens to a plugin, until a disturbance.
OneGameOrOneFile == InOtherGame => ~MeshInUse /\ ~disturbed
=============================================================================
