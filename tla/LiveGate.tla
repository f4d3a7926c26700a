------------------------------ MODULE LiveGate ------------------------------
(***************************************************************************)
(* The gate in front of LIVE execution and its administration, functions   *)
(* of a request and of the environment of the process                      *)
(* (live-execution-gate.mjs, admin-live-control.mjs, api/live-control.mjs).*)
(* A setting is absent ("none"), one of the accepted words ("on"), or      *)
(* anything else ("off").                                                  *)
(***************************************************************************)
Flags == {"live_enabled", "readiness_passed", "admin_live_approved", "signer_unlocked",
          "network_submission_enabled", "fund_movement_enabled"}
Settings == Flags \cup {"emergency_kill_switch"}
Words == {"none", "on", "off"}
Environments == [mode : {"none", "LIVE", "SHADOW"}, words : [Settings -> Words]]
Nothing == [mode |-> "none", words |-> [s \in Settings |-> "none"]]

(* truthy(value, fallback) *)
Truthy(word, fallback) == IF word = "none" THEN fallback ELSE word = "on"

(* getLiveExecutionGateState: only the kill switch is on when absent. *)
On(input, env, s) == Truthy(input.words[s], Truthy(env.words[s], s = "emergency_kill_switch"))

IsLive(input, env) == IF input.mode = "none" THEN env.mode = "LIVE" ELSE input.mode = "LIVE"

Blockers(input, env) ==
  {s \in Flags : ~On(input, env, s)}
  \cup {s \in {"emergency_kill_switch"} : On(input, env, s)}
  \cup (IF IsLive(input, env) THEN {} ELSE {"execution_mode"})

Authorized(input, env) == Blockers(input, env) = {}

Actions == {"STATUS", "REQUEST_LIVE", "ACTIVATE_LIVE", "KILL_LIVE", "RETURN_SHADOW"}

Word(b) == IF b THEN "on" ELSE "off"

(* base of evaluateAdminLiveControl: the environment, changed for the      *)
(* answer only.                                                            *)
Base(action, env) ==
  CASE action = "REQUEST_LIVE" -> [env EXCEPT !.words["admin_live_approved"] = "on"]
    [] action = "ACTIVATE_LIVE" ->
         [env EXCEPT !.mode = "LIVE", !.words["admin_live_approved"] = "on",
                     !.words["live_enabled"] = "on", !.words["emergency_kill_switch"] = "off"]
    [] action \in {"KILL_LIVE", "RETURN_SHADOW"} ->
         [env EXCEPT !.mode = "SHADOW", !.words["admin_live_approved"] = "off",
                     !.words["live_enabled"] = "off", !.words["emergency_kill_switch"] = "on"]
    [] OTHER -> env

Effective(action, env) == Authorized(Base(action, env), Nothing)

(* The status of a POST with the admin's token: 200, or 409. *)
Accepted(action, env) == action \in {"REQUEST_LIVE", "ACTIVATE_LIVE"} => Effective(action, env)
=============================================================================
