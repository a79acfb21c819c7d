------------------------------- MODULE MCLib -------------------------------
(* One call of a routine of the kernel's library, or one run of grep.      *)
EXTENDS Lib, Grep

Conversions == {"a", "%%", "%x", "%#x", "%u", "%d", "%c", "%s", "%i"}
MCFormats ==
  {<<>>} \cup {<<c>> : c \in Conversions} \cup {<<c, d>> : c, d \in Conversions}

MCPatterns == {<<>>, <<"a">>, <<"a", "b">>, <<"a", "sp", "b">>,
               <<"a", "b", "b", "b">>}
MCTexts == UNION {[1 .. n -> {"a", "b", "nl"}] : n \in 0 .. 6}

NoCall ==
  /\ call = [f |-> "none"] /\ pc = "none"
  /\ edi = 0 /\ esi = 0 /\ ecx = 0 /\ edx = 0 /\ df = 0
  /\ mem = [a \in Addr |-> Byte(a)]
  /\ buf = 0 /\ esp = 0 /\ alternate = FALSE /\ out = <<>>

NoGrep ==
  /\ gpc = "none" /\ search = <<>> /\ pattern = <<>> /\ text = <<>> /\ clean = TRUE
  /\ dir_pos = 0 /\ fd_pos = 0 /\ data = [k \in 0 .. BUFSIZE |-> "?"]
  /\ last = 0 /\ line_start = 0 /\ read_cnt = 0 /\ printed = <<>>

Init == (LibInit /\ NoGrep) \/ (NoCall /\ GrepInit)
Next == (LibNext /\ UNCHANGED grepVars) \/ (GrepNext /\ UNCHANGED libVars)
Spec == Init /\ [][Next]_<<libVars, grepVars>>
=============================================================================
