SPECIFICATION Spec
CONSTANTS
    t1 = t1  t2 = t2  t3 = t3
    sem = sem  flg = flg  dtq1 = dtq1  mbx = mbx  mbf1 = mbf1  por1 = por1  por2 = por2
    mpf = mpf  mpl = mpl
    ma = ma  mb = mb  short = short  long = long  NONE = NONE
    Task = {t1, t2, t3}
    MaxPri = 2
    Obj <- MCObj
    Configs <- MCPorts
    Sem = {sem}
    MaxSem <- MCMaxSem
    SemAtr <- AnyOrder
    Flg = {flg}
    Bit = {1, 2}
    FlgAtr <- MCFlgAtr
    Dtq = {dtq1}
    Data = {1, 2}
    DtqAtr <- AnyOrder
    DtqCnt = {0, 2}
    Mbx = {mbx}
    Msg = {ma, mb}
    MsgPri <- MCMsgPri
    MaxMpri = 2
    MbxAtr <- MCMbxAtr
    Mbf = {mbf1}
    Mail = {short, long}
    MailSz <- MCMailSz
    MbfSz = {0, 5}
    MaxMsz <- MCMaxMsz
    MbfAtr = {{"TPRI"}}
    Por = {por1, por2}
    Patterns = {{1}, {2}}
    MaxRmsz <- MCMaxRmsz
    MaxCmsz <- MCMaxCmsz
    MsgSz = {1}
    RplSz = {1, 2}
    AcpTimed = {TRUE}
    FwdPri = TRUE
    PorAtr <- MCPorAtr
    Mpf = {mpf}
    BlkCnt <- MCBlkCnt
    MpfAtr <- AnyOrder
    Mpl = {mpl}
    ALIGN = 2
    MplSz = {9}
    BlkSz = {1, 3}
    MplAtr = {{"TPRI"}}
INVARIANT CallersWait
