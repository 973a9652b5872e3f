---------------------------- MODULE XenomaiCalls ----------------------------
(***************************************************************************)
(* The calls the tasks of Ex7 make.  The function of a task is a sequence  *)
(* of them, one instruction per call; a busy wait and the last loop of a   *)
(* barrier are instructions too.                                           *)
(***************************************************************************)
EXTENDS Naturals, Sequences

Instr(op, arg, n) == [op |-> op, arg |-> arg, n |-> n]

SemCreate(s, n) == <<Instr("create", s, n)>>
P(s)            == <<Instr("p", s, 0)>>
V(s)            == <<Instr("v", s, 0)>>
Broadcast(s)    == <<Instr("broadcast", s, 0)>>
SemDelete(s)    == <<Instr("delete", s, 0)>>
Acquire(m)      == <<Instr("acquire", m, 0)>>
Release(m)      == <<Instr("release", m, 0)>>
SetPriority(n)  == <<Instr("setprio", "self", n)>>
Sleep(n)        == <<Instr("sleep", "self", n)>>
Spin(n)         == <<Instr("spin", "self", n)>>
Start(t)        == <<Instr("start", t, 0)>>
Join(t)         == <<Instr("join", t, 0)>>
Forever         == <<Instr("forever", "self", 0)>>
=============================================================================
