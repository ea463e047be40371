---------------------------- MODULE MCCryptoLock ----------------------------
\* TLC instance of CryptoLock; the constants are in MCCryptoLock.cfg.
EXTENDS CryptoLock
=============================================================================
