----------------------------- MODULE MCPipeline -----------------------------
EXTENDS Pipeline

MCAbsolute == {"metadata", "geometry"}
=============================================================================
