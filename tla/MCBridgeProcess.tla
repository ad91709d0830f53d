----------------------------- MODULE MCBridgeProcess -----------------------------
EXTENDS BridgeProcess

CONSTANTS i1, i2, customer

TheNotification == <<i1, customer, i2>>
================================================================================
