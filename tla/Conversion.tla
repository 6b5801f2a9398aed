----------------------------- MODULE Conversion -----------------------------
(***************************************************************************)
(* Three views of one conversion that share no state: groups and rules     *)
(* (Rendering), the nodes a user edits (NodeEditing) and the fields of a   *)
(* proxy (ProxyFields).  A behaviour exercises one of them, so that their  *)
(* state spaces add up and do not multiply; the others are idle.           *)
(***************************************************************************)
EXTENDS Rendering

CONSTANTS
  Subscription, Versions, Content, InlineList, Additions,  \* NodeEditing
  NewName, Info, Configs, NoList, MaxEdits,
  FieldInputs, FieldEdits, Options, None, Edited         \* ProxyFields

VARIABLES
  component,  \* the view of this behaviour
  edited, cache, st, gone, edits,
  phase, round, sourceList, options, parsed, override, file, firstFile

editVars == <<edited, cache, st, gone, edits>>
fieldVars == <<phase, round, sourceList, options, parsed, override, file, firstFile>>

Editing == INSTANCE NodeEditing WITH cfg <- edited

Fields == INSTANCE ProxyFields WITH
  Inputs <- FieldInputs, Edits <- FieldEdits,
  stage <- phase, source <- sourceList, nodes <- parsed, edit <- override, out <- file,
  first <- firstFile

(* Lists are lists, configurations have one of three scopes, and no        *)
(* subscription is taken for the inline list or for the custom nodes: the  *)
(* code tells sources by their kind, too, and begins the IDs of custom     *)
(* nodes in a way no other ID does.                                        *)
ASSUME EditingAssumption ==
  /\ Subscription \in Seq(Elements(Subscription))
  /\ InlineList \in Seq(Elements(InlineList))
  /\ \A v \in DOMAIN Content : Content[v] \in Seq(Elements(Content[v]))
  /\ {Editing!Inline, Editing!Custom} \cap Editing!SubscriptionSet = {}
  /\ \A c \in Configs : c.scope \in {"global", "per_source", "none"}

-----------------------------------------------------------------------------
(* The other views are idle.                                               *)
Idle == "idle"
RenderingIdle ==
  /\ stage = Idle /\ cfg = [groups |-> <<Idle>>, prefix |-> Idle] /\ nodes = <<>>
  /\ excluded = {} /\ out = NoOutput /\ warned = FALSE /\ why = "nothing"
EditingIdle ==
  edited = Idle /\ cache = Idle /\ st = Idle /\ gone = Idle /\ edits = Idle
FieldsIdle ==
  /\ phase = Idle /\ round = Idle /\ sourceList = Idle /\ options = Idle /\ parsed = Idle
  /\ override = Idle /\ file = Idle /\ firstFile = Idle

ConversionInit ==
  \/ component = "rendering" /\ Init /\ EditingIdle /\ FieldsIdle
  \/ component = "editing" /\ Editing!Init /\ RenderingIdle /\ FieldsIdle
  \/ component = "fields" /\ Fields!Init /\ RenderingIdle /\ EditingIdle

ConversionNext ==
  /\ UNCHANGED component
  /\ \/ component = "rendering" /\ Next /\ UNCHANGED <<editVars, fieldVars>>
     \/ component = "editing" /\ Editing!Next /\ UNCHANGED <<vars, fieldVars>>
     \/ component = "fields" /\ Fields!Next /\ UNCHANGED <<vars, editVars>>

ConversionSpec ==
  ConversionInit /\ [][ConversionNext]_<<component, vars, editVars, fieldVars>>

-----------------------------------------------------------------------------
(* The properties of the components (see their modules).                   *)

(* Editing: what a user deleted is not rendered.                           *)
DeletedStaysHidden == component = "editing" => Editing!DeletedStaysHidden

(* Editing: nothing else is taken for a deleted node.                      *)
OnlyDeletedIsHidden == component = "editing" => Editing!OnlyDeletedIsHidden

(* Fields: a complete proxy is written with the values of its source.      *)
ValuesAreServed == component = "fields" => Fields!ValuesAreServed

(* Fields: a written file, subscribed to, is written again as it was.      *)
RenderingIsStable == component = "fields" => Fields!RenderingIsStable
=============================================================================
