------------------------------ MODULE MCDemoRun ------------------------------
EXTENDS DemoRun
CONSTANTS a, b, c
=============================================================================
