-------------------------- MODULE MCPrimaryDevice ---------------------------
EXTENDS PrimaryDevice
=============================================================================
