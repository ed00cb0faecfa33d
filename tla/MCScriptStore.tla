---------------------------- MODULE MCScriptStore ----------------------------
EXTENDS ScriptStore

===============================================================================
