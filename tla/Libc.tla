-------------------------------- MODULE Libc --------------------------------
(***************************************************************************)
(* The registers of a process and what the code of the C library does with *)
(* them: libc.c.  A function of the library puts the number of the service *)
(* in EAX and its arguments in EBX, ECX and EDX, executes int 0x80, and    *)
(* then tells an error from a result by the sign of EAX.  Between any two  *)
(* of these instructions an interrupt may come.                            *)
(***************************************************************************)
EXTENDS Integers

Registers == {"ebx", "ecx", "edx", "esi", "edi", "ebp", "eax", "ds", "es",
              "fs", "gs", "eip", "cs", "eflags", "esp", "ss"}

(* Where the process is: in code of its own, before the int 0x80 of a      *)
(* library function, or before the test of the result that follows it.     *)
OWN  == 100
INT  == 101
TEST == 102
Places == {OWN, INT, TEST}

(* movl id, %eax, with the (first) argument in EBX.                        *)
movl_id(c, id, arg0) == [c EXCEPT !["eax"] = id, !["ebx"] = arg0, !["eip"] = INT]

(* if (error < 0) { errno = -error; return -1; } else return error;        *)
IsError(c) == c["eax"] < 0
return(c)  == [c EXCEPT !["eax"] = IF IsError(c) THEN -1 ELSE @,
                        !["eip"] = OWN]
errno_after(c, old) == IF IsError(c) THEN -c["eax"] ELSE old
=============================================================================
