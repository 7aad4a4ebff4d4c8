---------------------------- MODULE MCPropertyFile ----------------------------
(* PropertyFile for TLC: two of the keys main() requires, and values with  *)
(* surrounding blanks and with the '=' a base64 password ends with.        *)
EXTENDS PropertyFile

MCKeys == {"DBPassword", "LBHost"}

MCValues == {<<"a">>, <<" ", "a">>, <<"a", "=">>}

=============================================================================
