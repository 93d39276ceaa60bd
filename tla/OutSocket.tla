----------------------------- MODULE OutSocket ------------------------------
(***************************************************************************)
(* The UDP socket of the process, as main sets it up and the sensor        *)
(* threads use it.                                                         *)
(***************************************************************************)
EXTENDS Integers

VARIABLES
  fd,      \* its descriptor, or -1
  open,    \* whether it is ready for sending
  dest     \* whether it has a destination

sockVars == <<fd, open, dest>>

SockInit == fd = -1 /\ open = FALSE /\ dest = FALSE

(* setDest throws when the address is not one.                             *)
setDest(ok) == dest' = (dest \/ ok) /\ UNCHANGED <<fd, open>>

(* enable throws when the kernel gives it no descriptor, or one that it    *)
(* cannot configure, which is then nobody's.                               *)
enable(ok) ==
  /\ fd' = IF ok THEN 3 ELSE fd
  /\ open' = (open \/ ok)
  /\ UNCHANGED dest

(* sendBuf throws when the socket is not open; the kernel may refuse too.  *)
CanSend == open /\ fd # -1
=============================================================================
