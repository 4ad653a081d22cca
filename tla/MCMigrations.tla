----------------------------- MODULE MCMigrations -----------------------------
EXTENDS Migrations
===============================================================================
