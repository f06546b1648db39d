------------------------------ MODULE MCObjects ------------------------------
(* Small instances of Objects for TLC. *)
EXTENDS DataChannel, TLC

CONSTANTS t1, t2, t3, sem, flg, mbx, mbf1, por1, por2, mpf, mpl,
          ma, mb, short, long

MCObj == {sem, flg, dtq1, mbx, mbf1, por1, por2, mpf, mpl}

(* The system has the two ports or one other object. *)
MCConfigs == {{o} : o \in MCObj \ {por1, por2}} \cup {{por1, por2}}

MCPorts == {{por1, por2}}

AnyOrder == {{}, {"TPRI"}}
MCMaxSem == (sem :> 2)
MCFlgAtr == {{"CLR"}, {"WMUL", "TPRI"}, {"WMUL", "CLR"}}
MCMbxAtr == {{}, {"TPRI", "MPRI"}}

MCMsgPri == (ma :> 1) @@ (mb :> 2)
MCMailSz == (short :> 1) @@ (long :> 3)
MCMaxMsz == (mbf1 :> 3)
MCMaxRmsz == (por1 :> 2) @@ (por2 :> 1)
MCMaxCmsz == (por1 :> 1) @@ (por2 :> 1)
MCPorAtr == (por1 :> {{"TPRI"}}) @@ (por2 :> {{}})
MCBlkCnt == (mpf :> 2)

Symmetry == Permutations(Task)
=============================================================================
