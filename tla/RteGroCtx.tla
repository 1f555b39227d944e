------------------------------ MODULE RteGroCtx ------------------------------
(***************************************************************************)
(* rte_gro_ctx_create and rte_gro_ctx_destroy: the memory of a context.    *)
(* Creation allocates the context and, for every type asked for, a table   *)
(* in three parts; any allocation may fail, and then what was allocated is *)
(* released.                                                               *)
(***************************************************************************)
EXTENDS Integers, Sequences

CONSTANTS
  TypeNum,       (* the bits of gro_types that are looked at: 0..TypeNum-1 *)
  Creators,      (* the bits that have an entry in tbl_create_fn           *)
  EntriesNums    (* the values of max_flow_num * max_item_per_flow         *)

ASSUME CtxAssumption ==
  /\ TypeNum \in Nat
  /\ Creators \subseteq 0..(TypeNum - 1)
  /\ EntriesNums \subseteq Nat

VARIABLES
  heap,       (* the blocks allocated                                      *)
  gro_ctx,    (* the context while it is allocated, else Nothing           *)
  param,      (* struct rte_gro_param                                      *)
  pc, i,      (* where create or destroy is, and its loop counter          *)
  part,       (* the part of table i that is allocated next                *)
  gro_types   (* the types whose tables have been created                  *)

ctx_vars == <<heap, gro_ctx, param, pc, i, part, gro_types>>

TypeBits == 0..(TypeNum - 1)

(* A table is its header, its items and its flows.                         *)
Parts == <<"tbl", "items", "flows">>

Table(j) == {<<j, Parts[n]>> : n \in DOMAIN Parts}

CtxBlock == <<-1, "ctx">>

Nothing == [gro_types |-> {}, tbls |-> {}]

CtxInit ==
  /\ heap = {}
  /\ gro_ctx = Nothing
  /\ param \in [gro_types : SUBSET TypeBits, entries_num : EntriesNums]
  /\ pc = "none"
  /\ i = 0
  /\ part = 1
  /\ gro_types = {}

Goto(label) == pc' = label /\ i' = 0 /\ part' = 1

(* rte_gro_ctx_create: the context itself is allocated, or not.            *)
CreateCtx ==
  /\ pc = "none"
  /\ \/ /\ heap' = heap \cup {CtxBlock}
        /\ Goto("create")
     \/ UNCHANGED <<heap, pc, i, part>>
  /\ gro_types' = {}
  /\ gro_ctx' = Nothing
  /\ UNCHANGED param

SkipType ==
  /\ pc = "create"
  /\ i \in TypeBits \ (param.gro_types \cap Creators)
  /\ i' = i + 1
  /\ UNCHANGED <<heap, gro_ctx, param, pc, part, gro_types>>

(* Mutant: the types created so far are not recorded.                      *)
TableCreated_Unrecorded ==
  /\ i' = i + 1
  /\ part' = 1
  /\ gro_ctx' = [gro_ctx EXCEPT !.tbls = gro_ctx.tbls \cup {i}]
  /\ UNCHANGED <<pc, gro_types>>

TableCreated ==
  /\ i' = i + 1
  /\ part' = 1
  /\ gro_ctx' = [gro_ctx EXCEPT !.tbls = gro_ctx.tbls \cup {i}]
  /\ gro_types' = gro_types \cup {i}
  /\ UNCHANGED pc

(* Mutant: a type whose table cannot be created is left out.               *)
TableFailed_GoesOn ==
  /\ i' = i + 1
  /\ part' = 1
  /\ UNCHANGED <<pc, gro_ctx, gro_types>>

(* "destroy all created tables"                                            *)
TableFailed ==
  /\ gro_ctx' = [gro_ctx EXCEPT !.gro_types = gro_types]
  /\ Goto("destroy")
  /\ UNCHANGED gro_types

(* What the create function of a table frees when an allocation fails.     *)
PartsFreed == Table(i)

(* The create function of type i allocates the next part of the table.     *)
CreateTablePart ==
  /\ pc = "create"
  /\ i \in param.gro_types \cap Creators
  /\ \/ /\ param.entries_num # 0
        /\ heap' = heap \cup {<<i, Parts[part]>>}
        /\ \/ part = Len(Parts) /\ TableCreated
           \/ part < Len(Parts) /\ part' = part + 1 /\ UNCHANGED <<pc, i, gro_ctx, gro_types>>
     \/ /\ heap' = heap \ PartsFreed
        /\ TableFailed
  /\ UNCHANGED param

CreateReturn ==
  /\ pc = "create"
  /\ i = TypeNum
  /\ gro_ctx' = [gro_ctx EXCEPT !.gro_types = param.gro_types]
  /\ Goto("ready")
  /\ UNCHANGED <<heap, param, gro_types>>

-----------------------------------------------------------------------------
(* rte_gro_ctx_destroy                                                     *)

Destroy ==
  /\ pc = "ready"
  /\ Goto("destroy")
  /\ UNCHANGED <<heap, gro_ctx, param, gro_types>>

(* Mutant: <= for < in the loop.                                           *)
DestroyTable_OneTooFar ==
  /\ pc = "destroy"
  /\ i \in 0..TypeNum
  /\ heap' = IF i \in gro_ctx.gro_types \cap Creators \cap gro_ctx.tbls THEN heap \ Table(i) ELSE heap
  /\ i' = i + 1
  /\ UNCHANGED <<gro_ctx, param, pc, part, gro_types>>

DestroyTable ==
  /\ pc = "destroy"
  /\ i \in TypeBits
  /\ heap' = IF i \in gro_ctx.gro_types \cap Creators \cap gro_ctx.tbls THEN heap \ Table(i) ELSE heap
  /\ i' = i + 1
  /\ UNCHANGED <<gro_ctx, param, pc, part, gro_types>>

DestroyReturn ==
  /\ pc = "destroy"
  /\ i = TypeNum
  /\ heap' = heap \ {CtxBlock}
  /\ gro_ctx' = Nothing
  /\ Goto("none")
  /\ UNCHANGED <<param, gro_types>>

CtxNext ==
  \/ CreateCtx \/ SkipType \/ CreateTablePart \/ CreateReturn
  \/ Destroy \/ DestroyTable \/ DestroyReturn

CtxSpec == CtxInit /\ [][CtxNext]_ctx_vars

-----------------------------------------------------------------------------
(* Properties                                                              *)

Blocks == {CtxBlock} \cup UNION {Table(j) : j \in TypeBits}

(* Variables have their types.                                             *)
CtxTypeOK ==
  /\ heap \subseteq Blocks
  /\ gro_ctx \in [gro_types : SUBSET TypeBits, tbls : SUBSET TypeBits]
  /\ param \in [gro_types : SUBSET TypeBits, entries_num : EntriesNums]
  /\ pc \in {"none", "create", "ready", "destroy"}
  /\ i \in 0..TypeNum
  /\ part \in 1..Len(Parts)
  /\ gro_types \subseteq TypeBits

(* Whatever allocation failed, and after a destroy, nothing is left        *)
(* allocated.                                                              *)
NothingLeaked == pc = "none" => heap = {}

(* A context that create returned has a whole table for every type it will *)
(* be asked to process; rte_gro_reassemble does not look whether it has.   *)
ReadyTablesExist ==
  pc = "ready" => \A j \in gro_ctx.gro_types \cap Creators : Table(j) \subseteq heap
=============================================================================
