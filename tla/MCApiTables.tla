----------------------------- MODULE MCApiTables -----------------------------
(***************************************************************************)
(* Tables that several requests read and then write: the access allowlist, *)
(* the presets with their snapshots and objects, once with two presets and *)
(* one snapshot, once with two snapshots of one preset, the rows of the    *)
(* OAuth flows, and the connections an admin makes and checks.             *)
(***************************************************************************)
EXTENDS AdminAllowlist, PresetStore, OAuthFlows, ConnectFlow, TLC

CONSTANTS LonePreset, LoneSnapshot

VARIABLE table

TablesInit == Init /\ StoreInit /\ OAuthInit /\ ConnectInit
              /\ table \in {"allowlist", "presets", "snapshots", "oauth", "connections"}

TablesNext ==
  /\ UNCHANGED table
  /\ \/ table = "allowlist" /\ Next /\ UNCHANGED <<storeVars, oauthVars, connectVars>>
     \/ /\ table = "presets" /\ StoreNext /\ UNCHANGED <<vars, oauthVars, connectVars>>
        /\ \A s \in SnapIds \ {LoneSnapshot} : creator'[s].pc = "idle"
     \/ /\ table = "snapshots" /\ StoreNext /\ UNCHANGED <<vars, oauthVars, connectVars>>
        /\ \A p \in Presets \ {LonePreset} : writer'[p].pc = "idle"
     \/ table = "oauth" /\ OAuthNext /\ UNCHANGED <<vars, storeVars, connectVars>>
     \/ table = "connections" /\ ConnectNext /\ UNCHANGED <<vars, storeVars, oauthVars>>

TablesSpec == TablesInit /\ [][TablesNext]_<<table, vars, storeVars, oauthVars, connectVars>>

\* Requests on the allowlist differ only in what they were asked to do.
RequestSymmetry == Permutations(Requests)

\* Rights have grounds: a removed address comes back only through a restore or the seeder,
\* and no connection is stored without the platform's word.
RightsAreGranted == NeverRegranted /\ InstallsAreVouchedFor

MCSites == [d1 |-> "discord", g1 |-> "github", m1 |-> "mattermost"]
=============================================================================
