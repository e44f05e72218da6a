------------------------------ MODULE MCParameters ------------------------------
(***************************************************************************)
(* Instances of Parameters for TLC: pieces of text and addresses are       *)
(* numbers.                                                                *)
(***************************************************************************)
EXTENDS Parameters

(* A text that fits a page, one that does not, and none.                   *)
ShortAndLong(field) ==
  IF field \in {"SSID", "PASS"} THEN {<<>>, <<1>>, <<2, 3>>} ELSE {<<1>>, <<2>>}

TwoAddresses == <<"IP", "MASK">>
OneOrOther   == {<<1>>, <<2>>}
===============================================================================
