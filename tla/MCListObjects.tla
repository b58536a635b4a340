---------------------------- MODULE MCListObjects -----------------------------
(* A bucket of two plain keys and a folder of two; the first key is the       *)
(* literal text &lt; and the folder has an & in its name.                     *)
EXTENDS ListObjects

MCKeyOrder == << <<"&", "lt;">>, <<"a">>, <<"d", "&", "/", "x">>, <<"d", "&", "/", "y">> >>
MCSizes == <<"1", "2", "3", "4">>
=============================================================================
