-------------------------- MODULE MCRawLogRecovery --------------------------
EXTENDS RawLogRecovery

MCReceiveTime == <<-1, -2, 3, 1, 2>>
=============================================================================
