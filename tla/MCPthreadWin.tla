---------------------------- MODULE MCPthreadWin ----------------------------
\* TLC instance of PthreadWin; the constants are in MCPthreadWin.cfg.
EXTENDS PthreadWin
=============================================================================
