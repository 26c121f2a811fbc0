------------------------------ MODULE MCPQLoad ------------------------------
(* Small files: a converted model, one converted with --mode s2, one       *)
(* without side tensors, one with biases, a damaged side tensor and k and  *)
(* v too small to quantize, one with a native QKV, and a converted one     *)
(* whose tensors differ in type.                                           *)
EXTENDS PQLoad

Shape(small) == [k \in Kinds |->
    IF k \in {"gate", "up"} THEN 6 ELSE IF k \in {"k", "v"} THEN small ELSE 4]
Width == [k \in Kinds |-> IF k = "down" THEN 6 ELSE 4]

Llama(side) ==
    [name |-> "llama", n_in |-> Width, n_out |-> Shape(4), side |-> side, ds |-> 4,
     oneType |-> TRUE, native |-> FALSE, biases |-> FALSE, swiglu |-> TRUE]

Converted == Llama([k \in Kinds |-> IF k = "down" THEN "S2" ELSE "S1"])
AllS2 == Llama([k \in Kinds |-> "S2"])
Ordinary == Llama([k \in Kinds |-> "none"])
SmallKV ==
    [Llama([k \in Kinds |-> CASE k = "up" -> "damaged" [] k = "gate" -> "S1" [] OTHER -> "none"])
        EXCEPT !.n_out = Shape(2), !.biases = TRUE, !.ds = 2]
Native == [Ordinary EXCEPT !.native = TRUE, !.swiglu = FALSE]
Gelu == [Ordinary EXCEPT !.swiglu = FALSE]
Biased == [Ordinary EXCEPT !.biases = TRUE]
MixedTypes == [Converted EXCEPT !.oneType = FALSE]

MCFiles == {Converted, AllS2, Ordinary, SmallKV, Native, MixedTypes}
ConvertedAndOrdinary == {Converted, Ordinary}
OnlyConverted == {Converted}
OnlyOrdinary == {Ordinary}
OtherModels == {Ordinary, Gelu, Biased}
=============================================================================
