------------------------------ MODULE MCOAuthTokens ------------------------------
EXTENDS OAuthTokens

CONSTANTS r1, r2
================================================================================
