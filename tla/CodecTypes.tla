------------------------------ MODULE CodecTypes ------------------------------
(***************************************************************************)
(* The types with the Codeable trait (protocol/src/codec).  An enum is     *)
(* known by its codes, a structure and a packet by their fields.           *)
(***************************************************************************)

Bool       == [is |-> "bool"]
Signed(n)  == [is |-> "int", bytes |-> n]
Enum(ords) == [is |-> "enum", ordinals |-> ords]
String     == [is |-> "string"]
Length     == [is |-> "length"]
Option(t)  == [is |-> "option", of |-> t]
Vec(t)     == [is |-> "vec", of |-> t]
Struct(ts) == [is |-> "struct", of |-> ts]
Vector3(t) == Struct(<<t, t, t>>)

=============================================================================
