---------------------------- MODULE EffectsStore ----------------------------
(***************************************************************************)
(* The effects the user has authored for all controllers: g_effects_store  *)
(* of src/src/platform/win32/vdsd.cc.  Two threads write it: the           *)
(* supervisor, for the "effects" control command, and the server of the    *)
(* DSX API, for packets that games send.  Every session reads it (see      *)
(* BridgeSession).  A section under the store's mutex is one step.         *)
(*                                                                         *)
(* The effects are three: trigger stands for both triggers, light for the  *)
(* light bar and the player's lights, mute_light for the microphone's.  A  *)
(* value is the generation that set it, 0 when it is not set.              *)
(***************************************************************************)
EXTENDS Naturals, SequencesExt

VARIABLES
  store,       \* g_effects_store.effects
  effects,     \* g_effects_store.generation
  request,     \* what the control command at work is about to store
  saved        \* the settings file

storeVars == <<store, effects, request, saved>>

Authored == [trigger : Nat, light : Nat, mute_light : Nat, force : BOOLEAN]
Cleared  == [trigger |-> 0, light |-> 0, mute_light |-> 0, force |-> FALSE]
NoRequest == [pc |-> "none", effects |-> Cleared]

(* load_effects_setting: a file that holds something is the first change.   *)
Load(file) ==
  /\ saved = file /\ store = file /\ request = NoRequest
  /\ effects = IF file = Cleared THEN 0 ELSE 1

-----------------------------------------------------------------------------
(* The control command.  A field is kept, cleared or set.                   *)

Fields == [clear : BOOLEAN, trigger : {"keep", "none", "set"},
           light : {"keep", "none", "set"}, mute_light : {"keep", "none", "set"},
           force : {"keep", "off", "on"}]
Keep == [clear |-> FALSE, trigger |-> "keep", light |-> "keep", mute_light |-> "keep",
         force |-> "keep"]

Updated(old, change, n) ==
  CASE change = "keep" -> old [] change = "none" -> 0 [] change = "set" -> n
Changed(e, c, n) ==
  LET base == IF c.clear THEN Cleared ELSE e IN
  [trigger |-> Updated(base.trigger, c.trigger, n),
   light   |-> Updated(base.light, c.light, n),
   mute_light |-> Updated(base.mute_light, c.mute_light, n),
   force   |-> IF c.force = "keep" THEN base.force ELSE c.force = "on"]

(* The command works on a copy.  One without fields or that cannot be       *)
(* parsed is answered without a change.                                     *)
CommandCopies(c) ==
  /\ request.pc = "none"
  /\ request' = [pc |-> "store", effects |-> Changed(store, c, effects + 1)]
  /\ UNCHANGED <<store, effects, saved>>

(* The copy takes the place of what the store holds by now.                 *)
CommandStores ==
  /\ request.pc = "store"
  /\ store' = request.effects /\ effects' = effects + 1
  /\ request' = [request EXCEPT !.pc = "save"] /\ UNCHANGED saved

(* save_effects_setting; a file that cannot be written stays.               *)
CommandSaves ==
  /\ request.pc = "save" /\ request' = NoRequest
  /\ saved' \in {saved, request.effects} /\ UNCHANGED <<store, effects>>

-----------------------------------------------------------------------------
(* A packet of the DSX API: a sequence of instructions, none if it cannot   *)
(* be parsed.  "light" stands for the light bar's and the player's lights'  *)
(* instructions, "other" for the status and the threshold, which change     *)
(* nothing.                                                                 *)
Instructions == {"trigger", "light", "mute_light", "reset", "other"}

(* The instructions are obeyed in the packet's order: a field holds what    *)
(* the last one about it says, the resets included.                         *)
LastOf(packet, is) ==
  LET at == {k \in DOMAIN packet : packet[k] \in is} IN
  IF at = {} THEN "other" ELSE packet[Max(at)]

(* A trigger is set whatever mode and parameters the instruction names.     *)
Obeyed(old, i, n) == CASE i = "reset" -> 0 [] i = "other" -> old [] OTHER -> n

(* apply_instructions: all of a packet in one section, and one generation   *)
(* for it if any of it applies.                                             *)
Apply(packet) ==
  LET n == effects + 1 IN
  /\ store' =
       [trigger |-> Obeyed(store.trigger, LastOf(packet, {"trigger", "reset"}), n),
        light   |-> Obeyed(store.light, LastOf(packet, {"light", "reset"}), n),
        mute_light |-> Obeyed(store.mute_light, LastOf(packet, {"mute_light", "reset"}), n),
        force   |-> store.force /\ "reset" \notin Range(packet)]
  /\ effects' = IF \E i \in Range(packet) : i # "other" THEN n ELSE effects

DsxPacket(packet) == Apply(packet) /\ UNCHANGED <<request, saved>>
=============================================================================
